---- MODULE Spec2Model ----
(***************************************************************************)
(* State-machine model of the threeddocs editor/viewer:                    *)
(*   - the zustand application store (src/src/store/index.ts) with its     *)
(*     fire-and-forget persistence (saveToApi) and the server responses,   *)
(*   - the render-time connection list of the builder viewer,              *)
(*   - the camera controllers of the builder viewer and the upload canvas, *)
(*   - the data-URL -> blob-URL conversions (useBlobUrl, CustomModel),     *)
(*   - the asset load / error-boundary structure of the upload canvas.     *)
(***************************************************************************)
EXTENDS Integers, Sequences, FiniteSets, TLC

VARIABLES
    \* ---- application store (src/src/store/index.ts) ----
    project,            \* ProjectData; the record NoProject stands for null
    nodePositions,      \* Record<stepId, {x,y}> as a function on a subset of StepIds
    selectedStepId,     \* string | null
    cameraMode,         \* 'auto' | 'free'
    projects,           \* cached SavedProject list: sequence of [id, stamp]
    pendingCreateIds,   \* module-level Set of project ids with a POST in flight
    requests,           \* persist() closures awaiting their server response
    clock,              \* Date.now() as a logical clock (lastModified stamps)
    nextServerId,       \* next id the server would assign on create
    serverLog,          \* history: the writes the server stored, in the order it stored them
    createsIssued,      \* history: client project ids for which a POST was sent
    anyFailed,          \* history: some save request has failed
    lastOp,             \* history: the last operation on the project or its saves
    currentPreviewStepIndex,
    \* ---- the mounted 3D canvas and its CameraController ----
    viewer,             \* which canvas is shown: "none", "builder" (Viewer3D),
                        \* "uploadPreview" or "uploadEditor" (UploadedModelCanvas)
    ctlMounted,         \* CameraController is mounted
    camPos,             \* camera.position (live eye), in 1/Scale units
    camLookAt,          \* live look-at point (upload canvas: OrbitControls target)
    targetPos,          \* targetPos / targetCamPos ref
    targetLookAt,       \* targetLookAt / targetCamLookAt ref
    previousStepId,     \* previousStepId ref (builder)
    upCameraMode,       \* cameraMode prop of the upload canvas
    cameraStateRef,     \* shared camera snapshot (upload editor)
    ticks,              \* frames rendered so far
    lastTick,           \* history: what the last frame callback did
    easeFrom,           \* history: live eye when the current easing run started
    easeTicks,          \* history: interpolating frames since then
    \* ---- one component converting a data URL into a blob URL ----
    assetHost,          \* "none", "useBlobUrl" (upload canvas) or "CustomModel" (builder)
    mounted,            \* the component is mounted
    url,                \* its url prop
    effectsRun,         \* effect runs so far (mount and url changes)
    fetches,            \* the fetches started, one per effect run on a data URL
    activeFetch,        \* index of the fetch of the effect whose cleanup is registered, or 0
    blobUrlRef,         \* blobUrlRef.current
    blobUrl,            \* convertedBlobUrl / blobUrl state
    created,            \* history: handles returned by URL.createObjectURL
    revoked,            \* history: handles passed to URL.revokeObjectURL, and by which cleanup
    gltf,               \* the model load started by useGLTF in ModelRenderer
    caughtBy,           \* the component that caught the load failure
    \* ---- ModelRenderer of the upload canvas: mesh highlighting ----
    isPickMode,         \* isPickMode prop
    hoveredMeshName,    \* hoveredMeshName state
    focusedMeshName,    \* focusedMeshName prop
    stepHighlights,     \* stepHighlights prop
    pointerOver,        \* the mesh under the pointer, or "none"
    emissive,           \* per mesh: emissive colour and intensity of its material
    emissiveRule,       \* history: the branch of the effect that last wrote each mesh
    \* ---- apiRequest: token refresh shared by concurrent requests ----
    isRefreshing,       \* module variable isRefreshing
    failedQueue,        \* module variable failedQueue: the calls whose resolve/reject pair it holds
    calls,              \* per apiRequest call: where its async body stands and how it settled
    refreshLog,         \* history: the calls that started POST /auth/refresh, in order
    lastRefresh,        \* history: how the latest refresh ended
    redirected,         \* window.location.href was set to '/'
    sends,              \* history: how often each call sent its request
    \* ---- layoutCalculator: one call of a layout function ----
    layoutSteps,        \* argument steps (their ids, in array order)
    layoutConnections,  \* argument connections
    layoutNodePositions,\* argument nodePositions
    layoutResult,       \* which function ran and the Map it returned
    bfs,                \* calculateHierarchicalLayout run step by step: its queue and depths
    \* ---- UploadModelEditor ----
    edStepData,         \* per step of the uploaded project: focus mesh, focus point, camera
    edSelectedStepId,   \* selectedStepId state of the editor
    editingStep,        \* editingStep state (open = FALSE stands for null)
    isAddingStep,       \* isAddingStep state
    edIsPickMode,       \* isPickMode state of the editor
    lastPick,           \* history: the latest mesh pick and whether a form took it
    \* ---- preview mode (store flag and the PreviewMode component) ----
    isPreviewMode,      \* isPreviewMode of the store
    previewRender,      \* outcome of the latest render of PreviewMode
    \* ---- model file inputs ----
    fileInput,          \* which input the user used and the file it holds
    fileOutcome,        \* what the change handler did with the file
    \* ---- the project list on the server ----
    serverDocs,         \* ids of the documents the server holds
    storedCreates,      \* creates the server has stored whose answer is still under way
    listRequests,       \* loadProjects calls awaiting fetchProjects()
    deleteRequests      \* deleteProject calls awaiting deleteProjectRequest()

storeVars == <<project, nodePositions, selectedStepId, cameraMode, projects,
               pendingCreateIds, requests, clock, nextServerId, serverLog, createsIssued,
               anyFailed, lastOp, currentPreviewStepIndex>>

camVars == <<viewer, ctlMounted, camPos, camLookAt, targetPos, targetLookAt,
             previousStepId, upCameraMode, cameraStateRef, ticks, lastTick,
             easeFrom, easeTicks>>

assetVars == <<assetHost, mounted, url, effectsRun, fetches, activeFetch, blobUrlRef,
               blobUrl, created, revoked, gltf, caughtBy>>

hlVars == <<isPickMode, hoveredMeshName, focusedMeshName, stepHighlights, pointerOver,
            emissive, emissiveRule>>

\* The groups added after the store, the camera and the URL conversion.
authVars == <<isRefreshing, failedQueue, calls, refreshLog, lastRefresh, redirected, sends>>

\* the groups added after the mesh highlighting
layoutVars == <<layoutSteps, layoutConnections, layoutNodePositions, layoutResult, bfs>>

editorVars == <<edStepData, edSelectedStepId, editingStep, isAddingStep, edIsPickMode,
                lastPick>>

previewVars == <<isPreviewMode, previewRender>>

fileVars == <<fileInput, fileOutcome>>

syncVars == <<serverDocs, storedCreates, listRequests, deleteRequests>>

laterVars == <<authVars, layoutVars, editorVars, previewVars, fileVars, syncVars>>

extraVars == <<hlVars, laterVars>>

vars == <<storeVars, camVars, assetVars, extraVars>>

Null == "null"
Undefined == "undefined"

\* ---- bounds of the model ----
MaxSaves == 3           \* saveToApi calls per behaviour (caps the clock)
MaxTicks == 3           \* rendered frames per behaviour
MaxOpens == 2           \* projects opened per behaviour while a canvas is shown
MaxEffects == 3         \* effect runs of the URL conversion per behaviour
MaxCalls == 3           \* concurrent apiRequest calls per behaviour
MaxLayoutSteps == 4     \* steps (and connections) handed to a layout function

\* Coordinates are exact rationals with denominator Scale: MaxTicks successive
\* interpolation steps of 1/20 stay exact.
Scale == 20 ^ MaxTicks

\* ---- finite universes of identifiers ----
StepIds == {"s1", "s2", "s3"}
ConnIds == {"e1", "e2"}
NewProjectIds == {"project-a"}
SrvName == <<"srv1", "srv2", "srv3", "srv4", "srv5">>
Pos2D == {<<0, 0>>, <<100, 0>>}

Conn(i, s, t, st) == [id |-> i, source |-> s, target |-> t, style |-> st]
Guide(i, s) == [id |-> i, stepId |-> s]
NoPositions == [k \in {} |-> <<0, 0>>]
NoPos == <<>>           \* an omitted optional position argument

\* project: null.  guide is optional in ProjectData: hasGuide tells whether the
\* field is present.
NoProject == [id |-> Null, steps |-> <<>>, connections |-> <<>>, guide |-> <<>>,
              hasGuide |-> FALSE]

\* Documents handed to setProject (sample project, shared/server documents).
SampleDocs ==
    { [id |-> "sample-project-1", steps |-> <<"s1", "s2", "s3">>,
       connections |-> <<Conn("e1", "s1", "s2", "glass"), Conn("e2", "s2", "s3", Undefined)>>,
       guide |-> <<>>, hasGuide |-> FALSE],
      [id |-> "doc-2", steps |-> <<"s2", "s1">>,
       connections |-> <<Conn("e1", "s1", "s3", "neon"), Conn("e2", "s1", "s2", Undefined)>>,
       guide |-> <<Guide("g1", "s2"), Guide("g2", "s3"), Guide("g3", "s1")>>,
       hasGuide |-> TRUE] }

\* ---- sequence helpers ----
Range(seq) == {seq[i] : i \in 1..Len(seq)}

GuideOf(p) == IF p.hasGuide THEN p.guide ELSE <<>>

StepIdsOf(p) == Range(p.steps)

\* nodePositions with key k removed / set
DropKey(f, k) == [x \in (DOMAIN f) \ {k} |-> f[x]]

PutKey(f, k, v) == [x \in (DOMAIN f) \cup {k} |-> IF x = k THEN v ELSE f[x]]

------------------------------------------------------------------------------
(* saveToApi and the persist() closure up to its first await.               *)

CacheHas(cache, pid) == \E i \in 1..Len(cache) : cache[i].id = pid

ExistsInCache(cache, pending, pid) == CacheHas(cache, pid) \/ pid \in pending

SaveToApi(proj) ==
    IF proj.id = Null
    THEN UNCHANGED <<projects, pendingCreateIds, requests, clock, nextServerId, serverLog,
                     createsIssued, anyFailed>>
    ELSE LET exists == ExistsInCache(projects, pendingCreateIds, proj.id)
             req == [kind |-> IF exists THEN "PUT" ELSE "POST", pid |-> proj.id,
                     stamp |-> clock + 1, existsInCache |-> exists]
         IN /\ clock' = clock + 1
            /\ requests' = requests \cup {req}
            /\ pendingCreateIds' = IF exists THEN pendingCreateIds
                                   ELSE pendingCreateIds \cup {proj.id}
            /\ createsIssued' = IF exists THEN createsIssued
                                ELSE Append(createsIssued, proj.id)
            /\ UNCHANGED <<projects, nextServerId, serverLog, anyFailed>>

\* The id carried by the document the server returns for a create: the API
\* contract lets the server keep the client id or answer with its own.
CreatedIds(pid) == {pid, SrvName[nextServerId]}

ApplySaved(cache, req, updated) ==
    IF req.existsInCache
    THEN [i \in 1..Len(cache) |-> IF cache[i].id = req.pid THEN updated ELSE cache[i]]
    ELSE Append(cache, updated)

SaveSucceeds(req) ==
    /\ req \in requests
    /\ \E rid \in (IF req.kind = "POST" THEN CreatedIds(req.pid) ELSE {req.pid}) :
          /\ projects' = ApplySaved(projects, req, [id |-> rid, stamp |-> req.stamp])
          /\ nextServerId' = IF req.kind = "POST" THEN nextServerId + 1 ELSE nextServerId
    /\ serverLog' = Append(serverLog, [pid |-> req.pid, stamp |-> req.stamp])
    /\ pendingCreateIds' = IF req.kind = "POST" THEN pendingCreateIds \ {req.pid}
                           ELSE pendingCreateIds
    /\ requests' = requests \ {req}
    /\ lastOp' = [op |-> "saveSucceeds", arg |-> req.pid]
    /\ UNCHANGED <<project, nodePositions, selectedStepId, cameraMode, clock,
                   createsIssued, anyFailed, currentPreviewStepIndex>>

SaveFails_Retry(req) ==
    /\ req \in requests
    /\ pendingCreateIds' = IF req.kind = "POST" THEN pendingCreateIds \ {req.pid}
                           ELSE pendingCreateIds
    /\ requests' = (requests \ {req}) \cup {[req EXCEPT !.stamp = clock + 1]}
    /\ anyFailed' = TRUE
    /\ lastOp' = [op |-> "saveFails", arg |-> req.pid]
    /\ UNCHANGED <<project, nodePositions, selectedStepId, cameraMode, projects,
                   clock, nextServerId, serverLog, createsIssued, currentPreviewStepIndex>>

\* The request is rejected: the finally block and the catch handler run.
SaveFails(req) ==
    /\ req \in requests
    /\ pendingCreateIds' = IF req.kind = "POST" THEN pendingCreateIds \ {req.pid}
                           ELSE pendingCreateIds
    /\ requests' = requests \ {req}
    /\ anyFailed' = TRUE
    /\ lastOp' = [op |-> "saveFails", arg |-> req.pid]
    /\ UNCHANGED <<project, nodePositions, selectedStepId, cameraMode, projects,
                   clock, nextServerId, serverLog, createsIssued, currentPreviewStepIndex>>

------------------------------------------------------------------------------
(* Store actions.                                                            *)

SetProject(doc, withPositions, pos) ==
    /\ clock < MaxSaves
    /\ project' = doc
    /\ nodePositions' = IF withPositions THEN pos ELSE nodePositions
    /\ SaveToApi(doc)
    /\ lastOp' = [op |-> "setProject", arg |-> doc.id]
    /\ UNCHANGED <<selectedStepId, cameraMode, currentPreviewStepIndex>>

\* A node of the creator is dragged to a new place.
UpdateNodePosition(id, position) ==
    /\ clock < MaxSaves
    /\ nodePositions' = PutKey(nodePositions, id, position)
    /\ SaveToApi(project)
    /\ lastOp' = [op |-> "updateNodePosition", arg |-> id]
    /\ UNCHANGED <<project, selectedStepId, cameraMode, currentPreviewStepIndex>>

\* updateStep: the step keeps its id and its place in the array.
UpdateStep(id) ==
    /\ project.id # Null
    /\ clock < MaxSaves
    /\ SaveToApi(project)
    /\ lastOp' = [op |-> "updateStep", arg |-> id]
    /\ UNCHANGED <<project, nodePositions, selectedStepId, cameraMode,
                   currentPreviewStepIndex>>

CreateNewProject(pid) ==
    /\ clock < MaxSaves
    /\ pid # project.id /\ pid \notin Range(createsIssued)   \* crypto.randomUUID(): fresh
    /\ project' = [id |-> pid, steps |-> <<>>, connections |-> <<>>, guide |-> <<>>,
                   hasGuide |-> TRUE]
    /\ nodePositions' = NoPositions
    /\ selectedStepId' = Null
    /\ SaveToApi(project')
    /\ lastOp' = [op |-> "createNewProject", arg |-> pid]
    /\ UNCHANGED <<cameraMode, currentPreviewStepIndex>>

AddStep(id, pos) ==
    /\ project.id # Null
    /\ clock < MaxSaves
    /\ project' = [project EXCEPT !.steps = Append(@, id)]
    /\ nodePositions' = IF pos = NoPos THEN nodePositions
                        ELSE PutKey(nodePositions, id, pos)
    /\ SaveToApi(project')
    /\ lastOp' = [op |-> "addStep", arg |-> id]
    /\ UNCHANGED <<selectedStepId, cameraMode, currentPreviewStepIndex>>

DeletedProject_SourceOnly(p, id) ==
    [p EXCEPT !.steps = SelectSeq(@, LAMBDA s : s # id),
              !.connections = SelectSeq(@, LAMBDA e : e.source # id),
              !.guide = SelectSeq(GuideOf(p), LAMBDA g : g.stepId # id),
              !.hasGuide = TRUE]

DeletedProject(p, id) ==
    [p EXCEPT !.steps = SelectSeq(@, LAMBDA s : s # id),
              !.connections = SelectSeq(@, LAMBDA e : e.source # id /\ e.target # id),
              !.guide = SelectSeq(GuideOf(p), LAMBDA g : g.stepId # id),
              !.hasGuide = TRUE]

DeleteStep(id) ==
    /\ project.id # Null
    /\ clock < MaxSaves
    /\ project' = DeletedProject(project, id)
    /\ nodePositions' = DropKey(nodePositions, id)
    /\ selectedStepId' = IF selectedStepId = id THEN Null ELSE selectedStepId
    /\ SaveToApi(project')
    /\ lastOp' = [op |-> "deleteStep", arg |-> id]
    /\ UNCHANGED <<cameraMode, currentPreviewStepIndex>>

SetSelectedStepId(id) ==
    /\ selectedStepId' = id
    /\ UNCHANGED lastOp
    /\ UNCHANGED <<project, nodePositions, cameraMode, projects, pendingCreateIds,
                   requests, clock, nextServerId, serverLog, createsIssued, anyFailed,
                   currentPreviewStepIndex>>

SetCameraMode(mode) ==
    /\ cameraMode' = mode
    /\ UNCHANGED lastOp
    /\ UNCHANGED <<project, nodePositions, selectedStepId, projects, pendingCreateIds,
                   requests, clock, nextServerId, serverLog, createsIssued, anyFailed,
                   currentPreviewStepIndex>>

SetCurrentPreviewStepIndex(index) ==
    /\ currentPreviewStepIndex' = index
    /\ UNCHANGED lastOp
    /\ UNCHANGED <<project, nodePositions, selectedStepId, cameraMode, projects,
                   pendingCreateIds, requests, clock, nextServerId, serverLog, createsIssued,
                   anyFailed>>

UpdateConnections(edges) ==
    /\ project.id # Null
    /\ clock < MaxSaves
    /\ project' = [project EXCEPT !.connections = edges]
    /\ SaveToApi(project')
    /\ lastOp' = [op |-> "updateConnections", arg |-> Null]
    /\ UNCHANGED <<nodePositions, selectedStepId, cameraMode, currentPreviewStepIndex>>

\* StepBuilder.onConnect: a new standard edge between two nodes of the graph.
OnConnect(eid, s, t) ==
    /\ project.id # Null
    /\ {s, t} \subseteq StepIdsOf(project)
    /\ \A i \in 1..Len(project.connections) : project.connections[i].id # eid
    /\ UpdateConnections(Append(project.connections, Conn(eid, s, t, "standard")))

AddGuideStep(gid, stepId) ==
    /\ project.id # Null
    /\ clock < MaxSaves
    /\ \A i \in 1..Len(GuideOf(project)) : GuideOf(project)[i].id # gid
    /\ project' = [project EXCEPT !.guide = Append(GuideOf(project), Guide(gid, stepId)),
                                  !.hasGuide = TRUE]
    /\ SaveToApi(project')
    /\ lastOp' = [op |-> "addGuideStep", arg |-> stepId]
    /\ UNCHANGED <<nodePositions, selectedStepId, cameraMode, currentPreviewStepIndex>>

------------------------------------------------------------------------------
(* UnifiedModel: the connection list built for rendering (useMemo).          *)

\* new Map(steps.map((s, i) => [s.id, i])).get(id): the last index holding id,
\* 0 when the id is absent (indices are 1-based here).
StepIndex(steps, id) ==
    LET hits == {i \in 1..Len(steps) : steps[i] = id}
    IN IF hits = {} THEN 0 ELSE CHOOSE i \in hits : \A j \in hits : j <= i

NullConn == [sourceIndex |-> 0, targetIndex |-> 0, style |-> Null]

IndexMissing_Falsy(idx) == idx <= 1

IndexMissing(idx) == idx = 0

MapConn(steps, conn) ==
    LET sourceIndex == StepIndex(steps, conn.source)
        targetIndex == StepIndex(steps, conn.target)
    IN IF IndexMissing(sourceIndex) \/ IndexMissing(targetIndex)
       THEN NullConn
       ELSE [sourceIndex |-> sourceIndex, targetIndex |-> targetIndex,
             style |-> IF conn.style = Undefined THEN "standard" ELSE conn.style]

BuildConnections(p) ==
    SelectSeq([i \in 1..Len(p.connections) |-> MapConn(p.steps, p.connections[i])],
              LAMBDA c : c # NullConn)

------------------------------------------------------------------------------
(* Camera: vectors, interpolation and the 3D layout of the steps.            *)

V(x, y, z) == <<x * Scale, y * Scale, z * Scale>>

Origin == V(0, 0, 0)

\* THREE.Vector3.lerp(v, alpha) with alpha = 0.05 = 1/20 moves one coordinate
\* by a twentieth of its gap.
LerpStep_Overshoot(d) == d + (d \div 20)

LerpStep(d) == d \div 20

Lerp(p, t) == [i \in 1..3 |-> p[i] + LerpStep(t[i] - p[i])]

FALLBACK_STEP_SPACING == 4

MinOf(S) == CHOOSE m \in S : \A x \in S : m <= x

MaxOf(S) == CHOOSE m \in S : \A x \in S : x <= m

\* The simple layout used when no step has a position: index * spacing along X.
FallbackLayout_Stacked(steps) == [k \in Range(steps) |-> <<0, 0, 0>>]
FallbackLayout(steps) ==
    [k \in Range(steps) |-> <<(StepIndex(steps, k) - 1) * FALLBACK_STEP_SPACING * Scale, 0, 0>>]

\* calculateCreatorBasedLayout: (pos - centre) * 0.02 with centre = (min + max) / 2
\* is (2 * pos - min - max) / 100.
CalculateCreatorBasedLayout(steps, positions) ==
    LET ids == Range(steps)
        placed == ids \cap DOMAIN positions
        xs == {positions[k][1] : k \in placed}
        ys == {positions[k][2] : k \in placed}
    IN IF placed = {}
       THEN FallbackLayout(steps)
       ELSE [k \in ids |->
               IF k \in placed
               THEN <<(2 * positions[k][1] - MinOf(xs) - MaxOf(xs)) * (Scale \div 100), 0,
                      (2 * positions[k][2] - MinOf(ys) - MaxOf(ys)) * (Scale \div 100)>>
               ELSE Origin]

------------------------------------------------------------------------------
(* layoutCalculator: calculateHierarchicalLayout.                            *)

HORIZONTAL_SPACING == 4

DEPTH_SPACING == 5

Edge(s, t) == [source |-> s, target |-> t]

\* depths.get(id) === undefined
NoDepth == -1

\* outgoing.get(id) || []: the targets of the connections leaving id, in
\* connection order.
Outgoing(conns, id) ==
    LET es == SelectSeq(conns, LAMBDA e : e.source = id)
    IN [i \in 1..Len(es) |-> es[i].target]

HasIncoming(conns, id) == \E i \in 1..Len(conns) : conns[i].target = id

\* The steps without an incoming connection, or the first step when there is none.
Roots(steps, conns) ==
    LET roots == SelectSeq(steps, LAMBDA id : ~HasIncoming(conns, id))
    IN IF roots = <<>> THEN <<steps[1]>> ELSE roots

\* visited.has(id): an id is marked visited exactly when it is pushed.
Visited_Never(queue, id) == FALSE
Visited(queue, id) == \E i \in 1..Len(queue) : queue[i].id = id

\* children.forEach of one dequeued entry: a deeper depth replaces the recorded
\* one, and only a child never visited before is pushed.
RECURSIVE VisitChildren(_, _, _, _)
VisitChildren(children, i, depth, st) ==
    IF i > Len(children) THEN st
    ELSE LET childId == children[i]
             currentDepth == st.depths[childId]
             newDepth == depth + 1
             next == IF currentDepth = NoDepth \/ newDepth > currentDepth
                     THEN [depths |-> [st.depths EXCEPT ![childId] = newDepth],
                           queue |-> IF Visited(st.queue, childId) THEN st.queue
                                     ELSE Append(st.queue, [id |-> childId, depth |-> newDepth])]
                     ELSE st
         IN VisitChildren(children, i + 1, depth, next)

\* while (queueIndex < queue.length): an entry carries the depth it was pushed with.
RECURSIVE Bfs(_, _, _)
Bfs(conns, queueIndex, st) ==
    IF queueIndex > Len(st.queue) THEN st
    ELSE Bfs(conns, queueIndex + 1,
             VisitChildren(Outgoing(conns, st.queue[queueIndex].id), 1,
                           st.queue[queueIndex].depth, st))

\* The depths Map after the breadth-first pass and the fill-in of the steps it
\* did not reach; order is the insertion order of the Map.
\* Every id the call can meet: the steps and the endpoints of the connections.
LayoutIds(steps, conns) ==
    Range(steps) \cup {conns[i].source : i \in 1..Len(conns)}
                 \cup {conns[i].target : i \in 1..Len(conns)}

\* roots.forEach: the queue and the depths before the loop.
BfsStart(steps, conns) ==
    LET roots == Roots(steps, conns)
    IN [depths |-> [k \in LayoutIds(steps, conns) |->
                      IF k \in Range(roots) THEN 0 ELSE NoDepth],
        queue |-> [i \in 1..Len(roots) |-> [id |-> roots[i], depth |-> 0]]]

\* steps.forEach after the loop: the steps the pass did not reach get depth 0.
FillDepths(steps, st) ==
    LET unreached == SelectSeq(steps, LAMBDA id : st.depths[id] = NoDepth)
    IN [depths |-> [k \in DOMAIN st.depths |->
                      IF st.depths[k] = NoDepth THEN 0 ELSE st.depths[k]],
        order |-> [i \in 1..Len(st.queue) |-> st.queue[i].id] \o unreached]

AssignDepths(steps, conns) == FillDepths(steps, Bfs(conns, 1, BfsStart(steps, conns)))

\* One entry of the returned Map.
LayoutPosition(pos, depth) == [pos |-> pos, depth |-> depth]

NoLayout == [k \in {} |-> LayoutPosition(Origin, 0)]

\* levelGroups and the positions Map, from the depths in insertion order.
PositionsOf(a) ==
    LET Level(d) == SelectSeq(a.order, LAMBDA k : a.depths[k] = d)
    IN [k \in Range(a.order) |->
          LET depth == a.depths[k]
              nodeIds == Level(depth)
              nodeCount == Len(nodeIds)
              index == (CHOOSE i \in 1..nodeCount : nodeIds[i] = k) - 1
              x == IF nodeCount > 1
                   THEN index * HORIZONTAL_SPACING
                          - ((nodeCount - 1) * HORIZONTAL_SPACING) \div 2
                   ELSE 0
          IN LayoutPosition(V(x, 0, 0 - depth * DEPTH_SPACING), depth)]

CalculateHierarchicalLayout(steps, conns) ==
    IF steps = <<>> THEN NoLayout
    ELSE PositionsOf(AssignDepths(steps, conns))

\* calculateCreatorBasedLayout as the Map it returns (depth is 0 throughout).
CreatorLayout(steps, positions) ==
    IF steps = <<>> THEN NoLayout
    ELSE [k \in Range(steps) |->
            LayoutPosition(CalculateCreatorBasedLayout(steps, positions)[k], 0)]

LayoutOthersUnchanged == UNCHANGED <<storeVars, camVars, assetVars, hlVars, authVars,
                                     editorVars, previewVars, fileVars, syncVars>>

RunHierarchicalLayout ==
    /\ layoutResult.fn = "none"
    /\ layoutResult' = [fn |-> "hierarchical",
                        out |-> CalculateHierarchicalLayout(layoutSteps, layoutConnections)]
    /\ UNCHANGED <<layoutSteps, layoutConnections, layoutNodePositions, bfs>>
    /\ LayoutOthersUnchanged

RunCreatorLayout ==
    /\ layoutResult.fn = "none"
    /\ layoutResult' = [fn |-> "creator",
                        out |-> CreatorLayout(layoutSteps, layoutNodePositions)]
    /\ UNCHANGED <<layoutSteps, layoutConnections, layoutNodePositions, bfs>>
    /\ LayoutOthersUnchanged

\* calculateHierarchicalLayout statement by statement: the call up to the
\* loop, one pass of the while loop per step, and the code after the loop.
NoBfs == [pc |-> "idle", queueIndex |-> 1, queue |-> <<>>,
          depths |-> [k \in {} |-> NoDepth]]

StartBfs ==
    /\ bfs.pc = "idle" /\ layoutResult.fn = "none"
    /\ IF layoutSteps = <<>>
       THEN /\ bfs' = [NoBfs EXCEPT !.pc = "done"]
            /\ layoutResult' = [fn |-> "hierarchical", out |-> NoLayout]
       ELSE /\ bfs' = [pc |-> "loop", queueIndex |-> 1,
                       queue |-> BfsStart(layoutSteps, layoutConnections).queue,
                       depths |-> BfsStart(layoutSteps, layoutConnections).depths]
            /\ UNCHANGED layoutResult
    /\ UNCHANGED <<layoutSteps, layoutConnections, layoutNodePositions>>
    /\ LayoutOthersUnchanged

BfsIteration ==
    /\ bfs.pc = "loop" /\ bfs.queueIndex <= Len(bfs.queue)
    /\ LET entry == bfs.queue[bfs.queueIndex]
           st == VisitChildren(Outgoing(layoutConnections, entry.id), 1, entry.depth,
                               [depths |-> bfs.depths, queue |-> bfs.queue])
       IN bfs' = [pc |-> "loop", queueIndex |-> bfs.queueIndex + 1,
                  queue |-> st.queue, depths |-> st.depths]
    /\ UNCHANGED <<layoutSteps, layoutConnections, layoutNodePositions, layoutResult>>
    /\ LayoutOthersUnchanged

BfsReturn ==
    /\ bfs.pc = "loop" /\ bfs.queueIndex > Len(bfs.queue)
    /\ bfs' = [bfs EXCEPT !.pc = "done"]
    /\ layoutResult' = [fn |-> "hierarchical",
                        out |-> PositionsOf(FillDepths(layoutSteps,
                                    [depths |-> bfs.depths, queue |-> bfs.queue]))]
    /\ UNCHANGED <<layoutSteps, layoutConnections, layoutNodePositions>>
    /\ LayoutOthersUnchanged

\* No layout function is being looked at.
InitNoLayout ==
    /\ layoutSteps = <<>>
    /\ layoutConnections = <<>>
    /\ layoutNodePositions = NoPositions
    /\ layoutResult = [fn |-> "none", out |-> NoLayout]
    /\ bfs = NoBfs

------------------------------------------------------------------------------
(* Viewer3D: CameraController of the builder canvas.                         *)

OverviewPos == V(0, 20, 35)

CameraDistance == 35

CameraHeight == 15

BuilderCameraStart == V(0, 40, 70)

\* The target the effect body computes for a step id.
ResolveTarget(proj, positions, stepId) ==
    IF stepId = Null \/ stepId \notin StepIdsOf(proj)
    THEN [pos |-> OverviewPos, lookAt |-> Origin]
    ELSE LET stepPos == CalculateCreatorBasedLayout(proj.steps, positions)[stepId]
         IN [pos |-> <<stepPos[1], CameraHeight * Scale, stepPos[3] + CameraDistance * Scale>>,
             lookAt |-> stepPos]

EffectFires_Never(mode, stepId, prev) == FALSE
EffectFires(mode, stepId, prev) == mode = "auto" /\ stepId # prev

\* History: a run of frames easing towards one target starts afresh when the
\* target moves.
EaseRestarts(moved) ==
    IF moved THEN easeFrom' = camPos /\ easeTicks' = 0
    ELSE UNCHANGED <<easeFrom, easeTicks>>

\* Render of Viewer3D after a store change: CameraController is mounted while
\* there is a project (fresh refs on mount), then its effect runs.
BuilderCommit ==
    IF viewer # "builder" \/ project'.id = Null
    THEN /\ ctlMounted' = FALSE
         /\ UNCHANGED <<targetPos, targetLookAt, previousStepId, easeFrom, easeTicks>>
    ELSE LET prev == IF ctlMounted THEN previousStepId ELSE Null
             tp == IF ctlMounted THEN targetPos ELSE Origin
             tl == IF ctlMounted THEN targetLookAt ELSE Origin
             t == ResolveTarget(project', nodePositions', selectedStepId')
         IN /\ ctlMounted' = TRUE
            /\ IF EffectFires(cameraMode', selectedStepId', prev)
               THEN /\ previousStepId' = selectedStepId'
                    /\ targetPos' = t.pos
                    /\ targetLookAt' = t.lookAt
               ELSE /\ previousStepId' = prev
                    /\ targetPos' = tp
                    /\ targetLookAt' = tl
            /\ EaseRestarts(~ctlMounted \/ targetPos' # targetPos)

BuilderOrbitEnabled == TRUE

NoTick == [mode |-> Null, lerped |-> FALSE, orbitEnabled |-> FALSE]

FrameInterpolates_Always(mode) == TRUE

FrameInterpolates(mode) == mode # "free"

\* useFrame of the builder controller. The look-at point is eased like the eye;
\* the re-projection of the view direction to distance 10 before the easing is
\* left out.
TickBuilder ==
    /\ viewer = "builder" /\ ctlMounted
    /\ ticks < MaxTicks
    /\ ticks' = ticks + 1
    /\ IF FrameInterpolates(cameraMode)
       THEN /\ camPos' = Lerp(camPos, targetPos)
            /\ camLookAt' = Lerp(camLookAt, targetLookAt)
            /\ easeTicks' = easeTicks + 1
       ELSE UNCHANGED <<camPos, camLookAt, easeTicks>>
    /\ lastTick' = [mode |-> cameraMode, lerped |-> FrameInterpolates(cameraMode),
                    orbitEnabled |-> BuilderOrbitEnabled]
    /\ UNCHANGED <<storeVars, viewer, ctlMounted, targetPos, targetLookAt, previousStepId,
                   upCameraMode, cameraStateRef, easeFrom, assetVars, extraVars>>

CamUnchangedByStore == UNCHANGED <<viewer, camPos, camLookAt, upCameraMode, cameraStateRef,
                                   ticks, lastTick, assetVars, extraVars>>

CamSetProject(doc, withPositions, pos) ==
    /\ viewer = "builder"
    /\ SetProject(doc, withPositions, pos)
    /\ BuilderCommit
    /\ CamUnchangedByStore

CamUpdateNodePosition(id, position) ==
    /\ viewer = "builder"
    /\ UpdateNodePosition(id, position)
    /\ BuilderCommit
    /\ CamUnchangedByStore

CamSetSelectedStepId(id) ==
    /\ viewer = "builder"
    /\ SetSelectedStepId(id)
    /\ BuilderCommit
    /\ CamUnchangedByStore

CamSetCameraMode(mode) ==
    /\ viewer = "builder"
    /\ SetCameraMode(mode)
    /\ BuilderCommit
    /\ CamUnchangedByStore

------------------------------------------------------------------------------
(* UploadedModelCanvas: CameraController, OrbitControls and its two hosts.   *)

UploadDoc == [id |-> "upload-1", steps |-> <<"s1", "s2", "s3">>, connections |-> <<>>,
              guide |-> <<>>, hasGuide |-> FALSE]

\* Per step: cameraPosition, its optional look-at target and the optional
\* focusPoint; <<>> stands for an absent value.
UploadStepData ==
    [k \in {"s1", "s2", "s3"} |->
        CASE k = "s1" -> [cameraPosition |-> <<3, 4, 5>>, cameraTarget |-> <<1, 0, 0>>,
                          focusPoint |-> <<>>]
          [] k = "s2" -> [cameraPosition |-> <<6, 6, 6>>, cameraTarget |-> <<>>,
                          focusPoint |-> <<2, 0, 0>>]
          [] OTHER -> [cameraPosition |-> <<7, 7, 7>>, cameraTarget |-> <<>>,
                       focusPoint |-> <<>>]]

UploadCameraStart == V(5, 5, 5)

FocusOffset == 5

\* UploadPreviewMode: the targetCamera handed to the canvas for a step.
TargetCamera(step) ==
    IF step.cameraPosition # <<>> /\ step.cameraTarget # <<>>
    THEN [pos |-> V(step.cameraPosition[1], step.cameraPosition[2], step.cameraPosition[3]),
          lookAt |-> V(step.cameraTarget[1], step.cameraTarget[2], step.cameraTarget[3])]
    ELSE IF step.focusPoint # <<>>
    THEN [pos |-> V(step.focusPoint[1] + FocusOffset, step.focusPoint[2] + FocusOffset,
                    step.focusPoint[3] + FocusOffset),
          lookAt |-> V(step.focusPoint[1], step.focusPoint[2], step.focusPoint[3])]
    ELSE [pos |-> UploadCameraStart, lookAt |-> Origin]

\* The preview passes a targetCamera for every step, the editor passes none.
HasTargetCamera(host) == host = "uploadPreview"

PreviewTarget(index) == TargetCamera(UploadStepData[UploadDoc.steps[index + 1]])

UploadOrbitEnabled(mode, hasTarget) == mode = "free" \/ ~hasTarget

UploadInterpolates(mode) == mode = "auto"

\* The effect of the upload CameraController after a render with the new props.
UploadCommit ==
    /\ IF upCameraMode' = "auto" /\ HasTargetCamera(viewer)
       THEN /\ targetPos' = PreviewTarget(currentPreviewStepIndex').pos
            /\ targetLookAt' = PreviewTarget(currentPreviewStepIndex').lookAt
       ELSE UNCHANGED <<targetPos, targetLookAt>>
    /\ EaseRestarts(targetPos' # targetPos)
    /\ UNCHANGED <<viewer, ctlMounted, camPos, camLookAt, previousStepId, cameraStateRef,
                   ticks, lastTick, assetVars, extraVars>>

UpSetCameraMode(mode) ==
    /\ viewer = "uploadPreview"
    /\ upCameraMode' = mode
    /\ UNCHANGED storeVars
    /\ UploadCommit

\* Previous / next buttons and the step dots of the preview.
UpGoToStep(index) ==
    /\ viewer = "uploadPreview"
    /\ index \in 0..(Len(project.steps) - 1)
    /\ index # currentPreviewStepIndex
    /\ SetCurrentPreviewStepIndex(index)
    /\ UNCHANGED upCameraMode
    /\ UploadCommit

NoSnapshot == [taken |-> FALSE, position |-> Origin, target |-> Origin]

TickUpload ==
    /\ viewer \in {"uploadPreview", "uploadEditor"}
    /\ ticks < MaxTicks
    /\ ticks' = ticks + 1
    /\ cameraStateRef' = IF viewer = "uploadEditor"
                         THEN [taken |-> TRUE, position |-> camPos, target |-> camLookAt]
                         ELSE cameraStateRef
    /\ IF UploadInterpolates(upCameraMode)
       THEN /\ camPos' = Lerp(camPos, targetPos)
            /\ camLookAt' = Lerp(camLookAt, targetLookAt)
            /\ easeTicks' = easeTicks + 1
       ELSE UNCHANGED <<camPos, camLookAt, easeTicks>>
    /\ lastTick' = [mode |-> upCameraMode, lerped |-> UploadInterpolates(upCameraMode),
                    orbitEnabled |-> UploadOrbitEnabled(upCameraMode, HasTargetCamera(viewer))]
    /\ UNCHANGED <<storeVars, viewer, ctlMounted, targetPos, targetLookAt, previousStepId,
                   upCameraMode, easeFrom, assetVars, extraVars>>

\* OrbitControls: the user drags the camera to another pose.
OrbitEnabled ==
    IF viewer = "builder" THEN BuilderOrbitEnabled
    ELSE UploadOrbitEnabled(upCameraMode, HasTargetCamera(viewer))

UserPoses == {[pos |-> V(1, 20, 35), lookAt |-> V(1, 0, 0)]}

UserOrbit(pose) ==
    /\ viewer # "none"
    /\ OrbitEnabled
    /\ camPos # pose.pos
    /\ camPos' = pose.pos
    /\ camLookAt' = pose.lookAt
    /\ easeFrom' = pose.pos
    /\ easeTicks' = 0
    /\ UNCHANGED <<storeVars, viewer, ctlMounted, targetPos, targetLookAt, previousStepId,
                   upCameraMode, cameraStateRef, ticks, lastTick, assetVars, extraVars>>

------------------------------------------------------------------------------
(* Data URL -> blob URL conversion: useBlobUrl (upload canvas) and           *)
(* CustomModel (builder canvas).                                             *)

Url(scheme, body) == [scheme |-> scheme, body |-> body]

NoUrl == Url("null", "")

ModelUrls == {Url("data", "A"), Url("data", "B"), Url("https", "c.glb")}

\* url.startsWith('data:')
IsDataUrl(u) == u.scheme = "data"

BlobBody == <<"1", "2", "3", "4", "5">>

\* URL.createObjectURL returns a handle never returned before.
NewBlobUrl == Url("blob", BlobBody[Cardinality(created) + 1])

NewFetch(u) == [url |-> u, cancelled |-> FALSE, status |-> "pending", handle |-> NoUrl,
                late |-> FALSE]

Revocation(handle, by) == [handle |-> handle, by |-> by]

\* The value useBlobUrl returns to UploadedModelCanvas.
UbResult(u, converted) == IF ~IsDataUrl(u) THEN u ELSE converted

\* ModelRenderer is rendered while the hook's value is not null, and calls
\* useGLTF on it; a url already being loaded is not loaded again.
RenderModel ==
    LET res == UbResult(url', blobUrl')
    IN IF ~mounted' \/ res = NoUrl
       THEN gltf' = [url |-> NoUrl, status |-> "none"] /\ caughtBy' = Null
       ELSE IF gltf.url = res
       THEN UNCHANGED <<gltf, caughtBy>>
       ELSE gltf' = [url |-> res, status |-> "loading"] /\ caughtBy' = Null

\* useBlobUrl's cleanup: cancel the effect's fetch, revoke and forget the
\* handle. The values it leaves behind.
UbCleanup ==
    LET cancelledFetches ==
            IF activeFetch = 0 THEN fetches
            ELSE [fetches EXCEPT ![activeFetch].cancelled = TRUE]
    IN IF activeFetch # 0 /\ blobUrlRef # NoUrl
       THEN [fetches |-> cancelledFetches, blobUrlRef |-> NoUrl, blobUrl |-> NoUrl,
             revoked |-> revoked \cup {Revocation(blobUrlRef, activeFetch)}]
       ELSE [fetches |-> cancelledFetches, blobUrlRef |-> blobUrlRef, blobUrl |-> blobUrl,
             revoked |-> revoked]

\* The url prop changes: the cleanup of the previous effect, then the effect
\* body for the url u.
UbChangeUrl(u) ==
    /\ assetHost = "useBlobUrl" /\ mounted
    /\ u # url
    /\ effectsRun < MaxEffects
    /\ url' = u
    /\ effectsRun' = effectsRun + 1
    /\ revoked' = UbCleanup.revoked
    /\ blobUrlRef' = UbCleanup.blobUrlRef
    /\ blobUrl' = UbCleanup.blobUrl
    /\ IF IsDataUrl(u)
       THEN /\ fetches' = Append(UbCleanup.fetches, NewFetch(u))
            /\ activeFetch' = Len(fetches) + 1
       ELSE /\ fetches' = UbCleanup.fetches
            /\ activeFetch' = 0
    /\ UNCHANGED <<assetHost, mounted, created, storeVars, camVars, extraVars>>
    /\ RenderModel

UbUnmount ==
    /\ assetHost = "useBlobUrl" /\ mounted
    /\ mounted' = FALSE
    /\ revoked' = UbCleanup.revoked
    /\ blobUrlRef' = UbCleanup.blobUrlRef
    /\ blobUrl' = UbCleanup.blobUrl
    /\ fetches' = UbCleanup.fetches
    /\ activeFetch' = 0
    /\ UNCHANGED <<assetHost, url, effectsRun, created, storeVars, camVars, extraVars>>
    /\ RenderModel

UbApplies_Always(cancelled) == TRUE

UbApplies(cancelled) == ~cancelled

\* fetch(url).then(res => res.blob()).then(...) of effect i settles with a blob.
UbFetchResolves(i) ==
    /\ assetHost = "useBlobUrl"
    /\ i \in 1..Len(fetches) /\ fetches[i].status = "pending"
    /\ IF UbApplies(fetches[i].cancelled)
       THEN /\ created' = created \cup {NewBlobUrl}
            /\ blobUrlRef' = NewBlobUrl
            /\ blobUrl' = IF mounted THEN NewBlobUrl ELSE blobUrl
            /\ fetches' = [fetches EXCEPT ![i].status = "applied", ![i].handle = NewBlobUrl,
                                          ![i].late = fetches[i].cancelled]
       ELSE /\ fetches' = [fetches EXCEPT ![i].status = "discarded", ![i].late = TRUE]
            /\ UNCHANGED <<created, blobUrlRef, blobUrl>>
    /\ UNCHANGED <<assetHost, mounted, url, effectsRun, activeFetch, revoked, storeVars, camVars, extraVars>>
    /\ RenderModel

\* The fetch fails: the catch handler logs.
UbFetchRejects(i) ==
    /\ assetHost = "useBlobUrl"
    /\ i \in 1..Len(fetches) /\ fetches[i].status = "pending"
    /\ fetches' = [fetches EXCEPT ![i].status = "rejected"]
    /\ UNCHANGED <<assetHost, mounted, url, effectsRun, activeFetch, blobUrlRef, blobUrl,
                   created, revoked, gltf, caughtBy, storeVars, camVars, extraVars>>

\* The components around the uploaded model, each with its parent:
\* UploadedModelCanvas renders ModelRenderer directly inside the Canvas, and
\* ModelRenderer returns ModelErrorBoundary > Suspense > primitive.
UploadTreeParent ==
    [n \in {"primitive", "Suspense", "ModelErrorBoundary", "ModelRenderer", "Canvas",
            "UploadedModelCanvas"} |->
        CASE n = "primitive" -> "Suspense"
          [] n = "Suspense" -> "ModelErrorBoundary"
          [] n = "ModelErrorBoundary" -> "ModelRenderer"
          [] n = "ModelRenderer" -> "Canvas"
          [] n = "Canvas" -> "UploadedModelCanvas"
          [] OTHER -> "root"]

\* Components of the tree defining getDerivedStateFromError.
ErrorBoundaries == {"ModelErrorBoundary"}

\* useGLTF(blobUrl) is called in the body of ModelRenderer.
GltfThrowSite == "ModelRenderer"

\* An error thrown while rendering a component goes to the nearest boundary
\* among its proper ancestors; "uncaught" when the tree has none.
RECURSIVE NearestBoundary(_)
NearestBoundary(node) ==
    IF node \notin DOMAIN UploadTreeParent THEN "uncaught"
    ELSE IF UploadTreeParent[node] \in ErrorBoundaries THEN UploadTreeParent[node]
    ELSE NearestBoundary(UploadTreeParent[node])

GltfLoaded ==
    /\ assetHost = "useBlobUrl"
    /\ gltf.status = "loading"
    /\ gltf' = [gltf EXCEPT !.status = "loaded"]
    /\ UNCHANGED <<assetHost, mounted, url, effectsRun, fetches, activeFetch, blobUrlRef,
                   blobUrl, created, revoked, caughtBy, storeVars, camVars, extraVars>>

\* The load fails: useGLTF throws the error into the render of ModelRenderer.
GltfFails ==
    /\ assetHost = "useBlobUrl"
    /\ gltf.status = "loading"
    /\ gltf' = [gltf EXCEPT !.status = "failed"]
    /\ caughtBy' = NearestBoundary(GltfThrowSite)
    /\ UNCHANGED <<assetHost, mounted, url, effectsRun, fetches, activeFetch, blobUrlRef,
                   blobUrl, created, revoked, storeVars, camVars, extraVars>>

\* CustomModel's cleanup exists for a data URL only; it revokes and forgets the
\* handle and leaves the blobUrl state alone. The values it leaves behind.
CmCleanup ==
    IF IsDataUrl(url) /\ blobUrlRef # NoUrl
    THEN [blobUrlRef |-> NoUrl, revoked |-> revoked \cup {Revocation(blobUrlRef, activeFetch)}]
    ELSE [blobUrlRef |-> blobUrlRef, revoked |-> revoked]

CmChangeUrl(u) ==
    /\ assetHost = "CustomModel" /\ mounted
    /\ u # url
    /\ effectsRun < MaxEffects
    /\ url' = u
    /\ effectsRun' = effectsRun + 1
    /\ revoked' = CmCleanup.revoked
    /\ blobUrlRef' = CmCleanup.blobUrlRef
    /\ IF IsDataUrl(u)
       THEN /\ fetches' = Append(fetches, NewFetch(u))
            /\ activeFetch' = Len(fetches) + 1
            /\ UNCHANGED blobUrl
       ELSE /\ blobUrl' = u
            /\ activeFetch' = 0
            /\ UNCHANGED fetches
    /\ UNCHANGED <<assetHost, mounted, created, gltf, caughtBy, storeVars, camVars, extraVars>>

CmUnmount ==
    /\ assetHost = "CustomModel" /\ mounted
    /\ mounted' = FALSE
    /\ revoked' = CmCleanup.revoked
    /\ blobUrlRef' = CmCleanup.blobUrlRef
    /\ UNCHANGED <<assetHost, url, effectsRun, fetches, activeFetch, blobUrl, created, gltf,
                   caughtBy, storeVars, camVars, extraVars>>

\* The conversion of effect i settles: nothing tells a superseded effect apart.
CmFetchResolves(i) ==
    /\ assetHost = "CustomModel"
    /\ i \in 1..Len(fetches) /\ fetches[i].status = "pending"
    /\ created' = created \cup {NewBlobUrl}
    /\ blobUrlRef' = NewBlobUrl
    /\ blobUrl' = IF mounted THEN NewBlobUrl ELSE blobUrl
    /\ fetches' = [fetches EXCEPT ![i].status = "applied", ![i].handle = NewBlobUrl,
                                  ![i].late = (~mounted \/ i # activeFetch)]
    /\ UNCHANGED <<assetHost, mounted, url, effectsRun, activeFetch, revoked, gltf, caughtBy,
                   storeVars, camVars, extraVars>>

CmFetchRejects(i) ==
    /\ assetHost = "CustomModel"
    /\ i \in 1..Len(fetches) /\ fetches[i].status = "pending"
    /\ fetches' = [fetches EXCEPT ![i].status = "rejected"]
    /\ UNCHANGED <<assetHost, mounted, url, effectsRun, activeFetch, blobUrlRef, blobUrl,
                   created, revoked, gltf, caughtBy, storeVars, camVars, extraVars>>

\* No converting component is shown.
InitNoAsset ==
    /\ assetHost = "none"
    /\ mounted = FALSE
    /\ url = NoUrl
    /\ effectsRun = 0
    /\ fetches = <<>>
    /\ activeFetch = 0
    /\ blobUrlRef = NoUrl
    /\ blobUrl = NoUrl
    /\ created = {}
    /\ revoked = {}
    /\ gltf = [url |-> NoUrl, status |-> "none"]
    /\ caughtBy = Null

\* The component right after its mount with the url u: the first effect ran.
InitAsset(host, u) ==
    /\ assetHost = host
    /\ mounted = TRUE
    /\ url = u
    /\ effectsRun = 1
    /\ fetches = IF IsDataUrl(u) THEN <<NewFetch(u)>> ELSE <<>>
    /\ activeFetch = IF IsDataUrl(u) THEN 1 ELSE 0
    /\ blobUrlRef = NoUrl
    /\ blobUrl = IF host = "CustomModel" /\ ~IsDataUrl(u) THEN u ELSE NoUrl
    /\ created = {}
    /\ revoked = {}
    /\ gltf = IF host = "useBlobUrl" /\ ~IsDataUrl(u)
              THEN [url |-> u, status |-> "loading"]
              ELSE [url |-> NoUrl, status |-> "none"]
    /\ caughtBy = Null

------------------------------------------------------------------------------
(* ModelRenderer: emissive highlighting of the meshes of the cloned scene.   *)

Meshes == {"m1", "m2", "m3", "m4"}

\* child.name: two meshes share a name, one has none.
MeshName == [m \in Meshes |->
                CASE m = "m1" -> "body" [] m = "m2" -> "wheel" [] m = "m3" -> "wheel"
                  [] OTHER -> ""]

\* A colour channel is kept in units of 1/510, half a step of the 8-bit scale.
ChannelMax == 510

Emissive(r, g, b, intensity) == [color |-> <<r, g, b>>, intensity |-> intensity]

NoEmissive == Emissive(0, 0, 0, 0)

\* 'emissive' in mat: m4 carries a material without the property.
HasEmissive == [m \in Meshes |-> m # "m4"]

\* mat.emissive and mat.emissiveIntensity of the loaded asset (intensity in tenths).
AssetEmissive == [m \in Meshes |->
                    CASE m = "m1" -> Emissive(255, 255, 255, 10)
                      [] m = "m2" -> Emissive(0, 0, 0, 0)
                      [] m = "m3" -> Emissive(510, 102, 0, 5)
                      [] OTHER -> NoEmissive]

\* origEmissive: what the clone recorded, for the meshes that have the property.
OrigEmissive == [m \in {x \in Meshes : HasEmissive[x]} |-> AssetEmissive[m]]

\* Math.round(clamp(c * 255, 0, 255)) for a channel c = v / 510.
ChannelToByte(v) ==
    LET clamped == IF v < 0 THEN 0 ELSE IF v > ChannelMax THEN ChannelMax ELSE v
    IN (clamped + 1) \div 2

\* THREE.Color.getHex()
GetHex(color) ==
    ChannelToByte(color[1]) * 65536 + ChannelToByte(color[2]) * 256 + ChannelToByte(color[3])

\* THREE.Color.setHex(hex)
SetHex(hex) == <<2 * (hex \div 65536), 2 * ((hex \div 256) % 256), 2 * (hex % 256)>>

HoverHex == 8965375     \* 0x88ccff

FocusHex == 4491519     \* 0x4488ff

StepHex == 4364769      \* '#4299e1'

HoverIntensity == 9

FocusIntensity == 6

StepIntensity == 4

Highlight(name, color) == [name |-> name, color |-> color]

\* stepHighlights.find(h => h.name !== '' && h.name === child.name): its index, or 0.
StepHl(hls, m) ==
    LET hits == {i \in 1..Len(hls) : hls[i].name # "" /\ hls[i].name = MeshName[m]}
    IN IF hits = {} THEN 0 ELSE CHOOSE i \in hits : \A j \in hits : i <= j

IsHover(pick, hovered, m) == pick /\ MeshName[m] = hovered

IsFocused(focused, m) == focused # Null /\ focused # "" /\ MeshName[m] = focused

\* The branch the effect takes for the mesh m.
RuleFor(pick, hovered, focused, hls, m) ==
    IF IsHover(pick, hovered, m) THEN "hover"
    ELSE IF IsFocused(focused, m) THEN "focus"
    ELSE IF StepHl(hls, m) # 0 THEN "step"
    ELSE IF m \in DOMAIN OrigEmissive THEN "orig"
    ELSE "none"

\* The effect over all meshes: setEmissive writes only materials that have the
\* property.
ApplyHighlights(old, pick, hovered, focused, hls) ==
    [m \in Meshes |->
        LET rule == RuleFor(pick, hovered, focused, hls, m)
        IN IF ~HasEmissive[m] \/ rule = "none" THEN old[m]
           ELSE IF rule = "hover" THEN [color |-> SetHex(HoverHex), intensity |-> HoverIntensity]
           ELSE IF rule = "focus" THEN [color |-> SetHex(FocusHex), intensity |-> FocusIntensity]
           ELSE IF rule = "step"
           THEN [color |-> SetHex(hls[StepHl(hls, m)].color), intensity |-> StepIntensity]
           ELSE [color |-> SetHex(GetHex(OrigEmissive[m].color)),
                 intensity |-> OrigEmissive[m].intensity]]

\* The effect runs after every render in which one of its inputs changed.
HighlightEffect ==
    /\ emissive' = ApplyHighlights(emissive, isPickMode', hoveredMeshName', focusedMeshName',
                                   stepHighlights')
    /\ emissiveRule' = [m \in Meshes |->
                          LET rule == RuleFor(isPickMode', hoveredMeshName', focusedMeshName',
                                              stepHighlights', m)
                          IN IF ~HasEmissive[m] \/ rule = "none" THEN emissiveRule[m] ELSE rule]

HlOthersUnchanged == UNCHANGED <<storeVars, camVars, assetVars, laterVars>>

\* The host turns pick mode on or off.
SetPickMode(pick) ==
    /\ pick # isPickMode
    /\ isPickMode' = pick
    /\ UNCHANGED <<hoveredMeshName, focusedMeshName, stepHighlights, pointerOver>>
    /\ HighlightEffect
    /\ HlOthersUnchanged

SetFocusedMeshName(name) ==
    /\ name # focusedMeshName
    /\ focusedMeshName' = name
    /\ UNCHANGED <<isPickMode, hoveredMeshName, stepHighlights, pointerOver>>
    /\ HighlightEffect
    /\ HlOthersUnchanged

SetStepHighlights(hls) ==
    /\ hls # stepHighlights
    /\ stepHighlights' = hls
    /\ UNCHANGED <<isPickMode, hoveredMeshName, focusedMeshName, pointerOver>>
    /\ HighlightEffect
    /\ HlOthersUnchanged

\* The pointer moves onto or within the mesh m: coming from another mesh, that
\* mesh's pointer-leave is delivered first, then handlePointerMove.
PointerMove(m) ==
    /\ pointerOver' = m
    /\ hoveredMeshName' = IF isPickMode THEN MeshName[m]
                          ELSE IF pointerOver \notin {"none", m} THEN Null
                          ELSE hoveredMeshName
    /\ UNCHANGED <<isPickMode, focusedMeshName, stepHighlights>>
    /\ HighlightEffect
    /\ HlOthersUnchanged

\* handlePointerLeave: the pointer leaves the model.
PointerLeave ==
    /\ pointerOver # "none"
    /\ pointerOver' = "none"
    /\ hoveredMeshName' = Null
    /\ UNCHANGED <<isPickMode, focusedMeshName, stepHighlights>>
    /\ HighlightEffect
    /\ HlOthersUnchanged

\* ModelRenderer after its first render and effect: nothing hovered, focused
\* or highlighted.
InitHighlight ==
    /\ isPickMode = FALSE
    /\ hoveredMeshName = Null
    /\ focusedMeshName = Null
    /\ stepHighlights = <<>>
    /\ pointerOver = "none"
    /\ emissive = ApplyHighlights(AssetEmissive, FALSE, Null, Null, <<>>)
    /\ emissiveRule = [m \in Meshes |-> IF HasEmissive[m] THEN "orig" ELSE "none"]

\* No ModelRenderer is shown.
InitNoHighlight ==
    /\ isPickMode = FALSE
    /\ hoveredMeshName = Null
    /\ focusedMeshName = Null
    /\ stepHighlights = <<>>
    /\ pointerOver = "none"
    /\ emissive = AssetEmissive
    /\ emissiveRule = [m \in Meshes |-> "none"]

------------------------------------------------------------------------------
(* apiRequest: the fetch wrapper with the shared token refresh.              *)

Calls == 1..MaxCalls

\* Where the async body of one apiRequest call stands:
\*   "idle"     not called yet
\*   "fetch"    awaiting the first fetch (_retrying = false)
\*   "queued"   returned the promise whose resolve/reject pair sits in failedQueue
\*   "refresh"  awaiting the fetch of /auth/refresh
\*   "retry"    awaiting the fetch of apiRequest(path, options, true)
\*   "resolved" / "rejected"  the promise given to the caller has settled
Call(at, status, viaQueue) == [at |-> at, status |-> status, viaQueue |-> viaQueue]

NoStatus == 0

Unauthorized == 401

Statuses == {200, Unauthorized}

\* if (isRefreshing)
AlreadyRefreshing_Never(flag) == FALSE
AlreadyRefreshing(flag) == flag

\* processQueue(error): every queued pair is invoked, reject when there is an
\* error, resolve (which starts the retry) when there is none.
ProcessQueue(cs, queue, error) ==
    [c \in Calls |->
        IF \E i \in 1..Len(queue) : queue[i] = c
        THEN [cs[c] EXCEPT !.at = IF error THEN "rejected" ELSE "retry"]
        ELSE cs[c]]

AuthOthersUnchanged == UNCHANGED <<storeVars, camVars, assetVars, hlVars, layoutVars,
                                   editorVars, previewVars, fileVars, syncVars>>

ApiRequest(c) ==
    /\ calls[c].at = "idle"
    /\ calls' = [calls EXCEPT ![c].at = "fetch"]
    /\ sends' = [sends EXCEPT ![c] = @ + 1]
    /\ UNCHANGED <<isRefreshing, failedQueue, refreshLog, lastRefresh, redirected>>
    /\ AuthOthersUnchanged

\* if (response.status === 401 && !_retrying)
TakesRefreshPath_WhenRetrying(status, retrying) == status = Unauthorized
TakesRefreshPath(status, retrying) == status = Unauthorized /\ ~retrying

\* The first fetch of call c is answered with the given status.
FetchResponds(c, status) ==
    /\ calls[c].at = "fetch"
    /\ IF TakesRefreshPath(status, FALSE)
       THEN IF AlreadyRefreshing(isRefreshing)
            THEN /\ failedQueue' = Append(failedQueue, c)
                 /\ calls' = [calls EXCEPT ![c] = Call("queued", status, TRUE)]
                 /\ UNCHANGED <<isRefreshing, refreshLog>>
            ELSE /\ isRefreshing' = TRUE
                 /\ refreshLog' = Append(refreshLog, c)
                 /\ calls' = [calls EXCEPT ![c] = Call("refresh", status, FALSE)]
                 /\ UNCHANGED failedQueue
       ELSE /\ calls' = [calls EXCEPT ![c] = Call("resolved", status, FALSE)]
            /\ UNCHANGED <<isRefreshing, failedQueue, refreshLog>>
    /\ UNCHANGED <<lastRefresh, redirected, sends>>
    /\ AuthOthersUnchanged

\* fetch itself rejects (network failure): the await throws outside the try.
FetchThrows(c) ==
    /\ calls[c].at = "fetch"
    /\ calls' = [calls EXCEPT ![c].at = "rejected"]
    /\ UNCHANGED <<isRefreshing, failedQueue, refreshLog, lastRefresh, redirected, sends>>
    /\ AuthOthersUnchanged

\* /auth/refresh answers. ok: the queue is replayed and the call retries.
\* Not ok: the queue is rejected, the page is redirected and the throw runs the
\* catch block, which processes the (now empty) queue once more.
RefreshResponds(c, ok) ==
    /\ calls[c].at = "refresh"
    /\ calls' = [ProcessQueue(calls, failedQueue, ~ok) EXCEPT
                    ![c].at = IF ok THEN "retry" ELSE "rejected"]
    /\ failedQueue' = <<>>
    /\ isRefreshing' = FALSE
    /\ lastRefresh' = IF ok THEN "ok" ELSE "expired"
    /\ redirected' = (redirected \/ ~ok)
    /\ sends' = [x \in Calls |-> IF ok /\ (x = c \/ x \in Range(failedQueue))
                                  THEN sends[x] + 1 ELSE sends[x]]
    /\ UNCHANGED refreshLog
    /\ AuthOthersUnchanged

\* The fetch of /auth/refresh rejects: only the catch block runs.
RefreshThrows(c) ==
    /\ calls[c].at = "refresh"
    /\ calls' = [ProcessQueue(calls, failedQueue, TRUE) EXCEPT ![c].at = "rejected"]
    /\ failedQueue' = <<>>
    /\ isRefreshing' = FALSE
    /\ lastRefresh' = "error"
    /\ UNCHANGED <<refreshLog, redirected, sends>>
    /\ AuthOthersUnchanged

\* The retried request (_retrying = true) is answered: any status, 401
\* included, is handed to the caller.
RetryResponds(c, status) ==
    /\ calls[c].at = "retry"
    /\ IF TakesRefreshPath(status, TRUE)
       THEN /\ isRefreshing' = TRUE
            /\ refreshLog' = Append(refreshLog, c)
            /\ calls' = [calls EXCEPT ![c].at = "refresh", ![c].status = status]
       ELSE /\ calls' = [calls EXCEPT ![c].at = "resolved", ![c].status = status]
            /\ UNCHANGED <<isRefreshing, refreshLog>>
    /\ UNCHANGED <<failedQueue, lastRefresh, redirected, sends>>
    /\ AuthOthersUnchanged

RetryThrows(c) ==
    /\ calls[c].at = "retry"
    /\ calls' = [calls EXCEPT ![c].at = "rejected"]
    /\ UNCHANGED <<isRefreshing, failedQueue, refreshLog, lastRefresh, redirected, sends>>
    /\ AuthOthersUnchanged

\* Module load: no refresh, nothing queued, no call made.
InitNoAuth ==
    /\ isRefreshing = FALSE
    /\ failedQueue = <<>>
    /\ calls = [c \in Calls |-> Call("idle", NoStatus, FALSE)]
    /\ refreshLog = <<>>
    /\ lastRefresh = "none"
    /\ redirected = FALSE
    /\ sends = [c \in Calls |-> 0]

------------------------------------------------------------------------------
(* UploadModelEditor: the step forms, pick mode and the mesh pick.           *)

\* DEFAULT_CAM = { x: 5, y: 5, z: 5, targetX: 0, targetY: 0, targetZ: 0 }
DEFAULT_CAM == [position |-> <<5, 5, 5>>, target |-> <<0, 0, 0>>]

\* Centre of the world-space bounding box of each mesh of the model.
MeshCentre ==
    [m \in Meshes |->
        CASE m = "m1" -> <<2, 0, 0>>
          [] m = "m2" -> <<0, 1, 0>>
          [] m = "m3" -> <<0, 0, 0>>
          [] OTHER -> <<1, 1, 1>>]

Unscale(v) == [i \in 1..3 |-> v[i] \div Scale]

EditingState(title, focusMeshName, focusPoint, cam, captured) ==
    [open |-> TRUE, title |-> title, focusMeshName |-> focusMeshName,
     focusPoint |-> focusPoint, cameraPosition |-> cam.position,
     cameraTarget |-> cam.target, cameraCaptured |-> captured]

\* editingStep = null
NoEditing == [EditingState("", "", <<>>, DEFAULT_CAM, FALSE) EXCEPT !.open = FALSE]

\* The step fields handleSaveStep writes from the form ('' || undefined and
\* null ?? undefined are the absent values "" and <<>>).
StepFromForm(e) ==
    [focusMeshName |-> e.focusMeshName, focusPoint |-> e.focusPoint,
     cameraPosition |-> e.cameraPosition, cameraTarget |-> e.cameraTarget]

\* The camera handleClick records: the snapshot of the last frame, or the
\* default when no frame has been rendered yet.
SnapshotCamera ==
    IF cameraStateRef.taken
    THEN [position |-> Unscale(cameraStateRef.position),
          target |-> Unscale(cameraStateRef.target)]
    ELSE DEFAULT_CAM

\* step-${Date.now()}-...: an id no step of the project has.
FreshStepId(p) == CHOOSE id \in StepIds \ StepIdsOf(p) : TRUE

NoPick == [made |-> FALSE, mesh |-> "none", recorded |-> FALSE]

EditorOthersUnchanged == UNCHANGED <<camVars, assetVars, hlVars, authVars, layoutVars,
                                     previewVars, fileVars, syncVars>>

OpenAddForm ==
    /\ ~editingStep.open
    /\ edSelectedStepId' = Null
    /\ editingStep' = EditingState("", "", <<>>, DEFAULT_CAM, FALSE)
    /\ isAddingStep' = TRUE
    /\ edIsPickMode' = TRUE
    /\ UNCHANGED <<edStepData, lastPick, storeVars>>
    /\ EditorOthersUnchanged

OpenEditForm(id) ==
    /\ id \in StepIdsOf(project)
    /\ edSelectedStepId' = id
    /\ editingStep' = EditingState("t", edStepData[id].focusMeshName, edStepData[id].focusPoint,
                                   [position |-> edStepData[id].cameraPosition,
                                    target |-> edStepData[id].cameraTarget], FALSE)
    /\ isAddingStep' = FALSE
    /\ edIsPickMode' = FALSE
    /\ UNCHANGED <<edStepData, lastPick, storeVars>>
    /\ EditorOthersUnchanged

\* Click on a row of the step list.
StepRowClick(id) ==
    /\ id \in StepIdsOf(project)
    /\ ~editingStep.open
    /\ edSelectedStepId' = IF id = edSelectedStepId THEN Null ELSE id
    /\ UNCHANGED <<edStepData, editingStep, isAddingStep, edIsPickMode, lastPick, storeVars>>
    /\ EditorOthersUnchanged

\* The title input of the form.
SetTitle ==
    /\ editingStep.open /\ editingStep.title = ""
    /\ editingStep' = [editingStep EXCEPT !.title = "t"]
    /\ UNCHANGED <<edStepData, edSelectedStepId, isAddingStep, edIsPickMode, lastPick,
                   storeVars>>
    /\ EditorOthersUnchanged

\* The button is rendered inside the form while pick mode is off.
HandleEnterPickMode ==
    /\ editingStep.open /\ ~edIsPickMode
    /\ edIsPickMode' = TRUE
    /\ UNCHANGED <<edStepData, edSelectedStepId, editingStep, isAddingStep, lastPick,
                   storeVars>>
    /\ EditorOthersUnchanged

\* handleClick of ModelRenderer on mesh m, then handleMeshPicked.
HandleMeshPicked(m) ==
    /\ edIsPickMode
    /\ edIsPickMode' = FALSE
    /\ editingStep' = IF editingStep.open
                      THEN [editingStep EXCEPT !.focusMeshName = MeshName[m],
                                               !.focusPoint = MeshCentre[m],
                                               !.cameraPosition = SnapshotCamera.position,
                                               !.cameraTarget = SnapshotCamera.target,
                                               !.cameraCaptured = TRUE]
                      ELSE editingStep
    /\ lastPick' = [made |-> TRUE, mesh |-> m, recorded |-> editingStep.open]
    /\ UNCHANGED <<edStepData, edSelectedStepId, isAddingStep, storeVars>>
    /\ EditorOthersUnchanged

\* The button is rendered while a form is open and pick mode is off.
HandleCaptureCamera ==
    /\ editingStep.open /\ ~edIsPickMode
    /\ editingStep' = IF cameraStateRef.taken
                      THEN [editingStep EXCEPT !.cameraPosition = SnapshotCamera.position,
                                               !.cameraTarget = SnapshotCamera.target,
                                               !.cameraCaptured = TRUE]
                      ELSE editingStep
    /\ UNCHANGED <<edStepData, edSelectedStepId, isAddingStep, edIsPickMode, lastPick,
                   storeVars>>
    /\ EditorOthersUnchanged

HandleSaveStep ==
    /\ editingStep.open /\ editingStep.title # ""
    /\ edIsPickMode' = FALSE
    /\ IF isAddingStep
       THEN /\ StepIds \ StepIdsOf(project) # {}
            /\ AddStep(FreshStepId(project), NoPos)
            /\ edStepData' = PutKey(edStepData, FreshStepId(project), StepFromForm(editingStep))
            /\ edSelectedStepId' = FreshStepId(project)
            /\ isAddingStep' = FALSE
            /\ editingStep' = NoEditing
       ELSE IF edSelectedStepId # Null
       THEN /\ UpdateStep(edSelectedStepId)
            /\ edStepData' = IF edSelectedStepId \in DOMAIN edStepData
                             THEN [edStepData EXCEPT ![edSelectedStepId] = StepFromForm(editingStep)]
                             ELSE edStepData
            /\ editingStep' = NoEditing
            /\ UNCHANGED <<edSelectedStepId, isAddingStep>>
       ELSE UNCHANGED <<edStepData, edSelectedStepId, editingStep, isAddingStep, storeVars>>
    /\ UNCHANGED lastPick
    /\ EditorOthersUnchanged

HandleCancelEdit ==
    /\ editingStep.open
    /\ editingStep' = NoEditing
    /\ isAddingStep' = FALSE
    /\ edIsPickMode' = FALSE
    /\ UNCHANGED <<edStepData, edSelectedStepId, lastPick, storeVars>>
    /\ EditorOthersUnchanged

\* The delete button of a row, with the confirm dialog accepted.
HandleDeleteStep(id) ==
    /\ id \in StepIdsOf(project)
    /\ DeleteStep(id)
    /\ edStepData' = DropKey(edStepData, id)
    /\ IF edSelectedStepId = id
       THEN edSelectedStepId' = Null /\ editingStep' = NoEditing
       ELSE UNCHANGED <<edSelectedStepId, editingStep>>
    /\ UNCHANGED <<isAddingStep, edIsPickMode, lastPick>>
    /\ EditorOthersUnchanged

\* The auto-camera target the playback computes for a step.
PlaybackTarget(id) == TargetCamera(edStepData[id])

\* No upload editor is shown.
InitNoEditor ==
    /\ edStepData = [k \in {} |-> StepFromForm(NoEditing)]
    /\ edSelectedStepId = Null
    /\ editingStep = NoEditing
    /\ isAddingStep = FALSE
    /\ edIsPickMode = FALSE
    /\ lastPick = NoPick

------------------------------------------------------------------------------
(* Preview mode of the builder: setPreviewMode and the PreviewMode component. *)

\* guideSteps: the guide's entries mapped to their steps, entries without a
\* step filtered out; all steps when there is no guide or it is empty.
MapGuide(p) ==
    [i \in 1..Len(GuideOf(p)) |->
        IF GuideOf(p)[i].stepId \in StepIdsOf(p) THEN GuideOf(p)[i].stepId ELSE Undefined]

PlaybackSequence(p) ==
    IF Len(GuideOf(p)) > 0
    THEN SelectSeq(MapGuide(p), LAMBDA x : x # Undefined)
    ELSE p.steps

NotShown == [kind |-> "notShown", step |-> Null]

\* One render of PreviewMode: the "No steps to preview" screen, the viewer on
\* guideSteps[currentPreviewStepIndex], or the TypeError of reading .id and
\* .title of undefined.
RenderPreview(p, index) ==
    IF p.id = Null \/ Len(p.steps) = 0
    THEN [kind |-> "noSteps", step |-> Null]
    ELSE IF index + 1 \in 1..Len(PlaybackSequence(p))
    THEN [kind |-> "step", step |-> PlaybackSequence(p)[index + 1]]
    ELSE [kind |-> "typeError", step |-> Undefined]

\* MainLayout renders PreviewMode exactly while isPreviewMode is set.
Rendered == previewRender' = IF isPreviewMode'
                             THEN RenderPreview(project', currentPreviewStepIndex')
                             ELSE NotShown

PreviewOthersUnchanged == UNCHANGED <<camVars, assetVars, hlVars, authVars, layoutVars,
                                      editorVars, fileVars, syncVars>>

SetPreviewMode(isPreview) ==
    /\ isPreviewMode' = isPreview
    /\ currentPreviewStepIndex' = IF isPreview THEN 0 ELSE currentPreviewStepIndex
    /\ lastOp' = [op |-> "setPreviewMode", arg |-> IF isPreview THEN "true" ELSE "false"]
    /\ UNCHANGED <<project, nodePositions, selectedStepId, cameraMode, projects,
                   pendingCreateIds, requests, clock, nextServerId, serverLog, createsIssued,
                   anyFailed>>
    /\ Rendered
    /\ PreviewOthersUnchanged

\* The buttons of a rendered PreviewMode.
CanGoPrevious == currentPreviewStepIndex > 0

CanGoNext == currentPreviewStepIndex < Len(PlaybackSequence(project)) - 1

PreviewPrevious ==
    /\ previewRender.kind = "step" /\ CanGoPrevious
    /\ SetCurrentPreviewStepIndex(currentPreviewStepIndex - 1)
    /\ UNCHANGED isPreviewMode
    /\ Rendered
    /\ PreviewOthersUnchanged

PreviewNext ==
    /\ previewRender.kind = "step" /\ CanGoNext
    /\ SetCurrentPreviewStepIndex(currentPreviewStepIndex + 1)
    /\ UNCHANGED isPreviewMode
    /\ Rendered
    /\ PreviewOthersUnchanged

\* One dot per entry of guideSteps.
PreviewJump(index) ==
    /\ previewRender.kind = "step" /\ index \in 0..(Len(PlaybackSequence(project)) - 1)
    /\ SetCurrentPreviewStepIndex(index)
    /\ UNCHANGED isPreviewMode
    /\ Rendered
    /\ PreviewOthersUnchanged

PreviewSetProject(doc) ==
    /\ SetProject(doc, FALSE, NoPositions)
    /\ UNCHANGED isPreviewMode
    /\ Rendered
    /\ PreviewOthersUnchanged

PreviewDeleteStep(id) ==
    /\ id \in StepIdsOf(project)
    /\ DeleteStep(id)
    /\ UNCHANGED isPreviewMode
    /\ Rendered
    /\ PreviewOthersUnchanged

InitNoPreview == isPreviewMode = FALSE /\ previewRender = NotShown

------------------------------------------------------------------------------
(* The two model file inputs: NewProjectDialog and a step's custom model.    *)

\* Sizes in bytes around the limit.
MaxSize == 50 * 1024 * 1024

FileSizes == {1024, MaxSize, MaxSize + 1, 60 * 1024 * 1024}

\* The part of the file name after its last dot ("" for a name without one).
FileExtensions == {"gltf", "glb", "GLB", "obj", ""}

\* file.type as the browser reports it ("" when it knows none).
FileTypes == {"", "model/gltf+json", "model/gltf-binary", "application/octet-stream",
              "image/png"}

Files == [size : FileSizes, extension : FileExtensions, type : FileTypes]

\* file.name.match(/\.(gltf|glb)$/i)
NameMatches(file) == file.extension \in {"gltf", "glb", "GLTF", "GLB"}

\* validTypes of the step's file input
ValidTypes == {"model/gltf+json", "model/gltf-binary", "model/gltf.binary",
               "application/octet-stream"}

Rejected == [alerted |-> TRUE, inputCleared |-> TRUE, readStarted |-> FALSE]

Reading == [alerted |-> FALSE, inputCleared |-> FALSE, readStarted |-> TRUE]

NoOutcome == [alerted |-> FALSE, inputCleared |-> FALSE, readStarted |-> FALSE]

\* handleFileUpload of the dialog, up to reader.readAsDataURL(file).
DialogOutcome(file) ==
    IF file.size > MaxSize THEN Rejected
    ELSE IF ~NameMatches(file) THEN Rejected
    ELSE Reading

\* onChange of the step's file input, up to reader.readAsDataURL(file).
StepInputOutcome(file) ==
    IF file.size > MaxSize THEN Rejected
    ELSE IF file.type # "" /\ file.type \notin ValidTypes /\ ~NameMatches(file) THEN Rejected
    ELSE Reading

FileOthersUnchanged == UNCHANGED <<storeVars, camVars, assetVars, hlVars, authVars, layoutVars,
                                   editorVars, previewVars, syncVars>>

NoFile == [input |-> "none", file |-> [size |-> 0, extension |-> "", type |-> ""]]

HandleFileUpload(file) ==
    /\ fileInput' = [input |-> "dialog", file |-> file]
    /\ fileOutcome' = DialogOutcome(file)
    /\ FileOthersUnchanged

StepFileChange(file) ==
    /\ fileInput' = [input |-> "step", file |-> file]
    /\ fileOutcome' = StepInputOutcome(file)
    /\ FileOthersUnchanged

InitNoFile == fileInput = NoFile /\ fileOutcome = NoOutcome

------------------------------------------------------------------------------
(* loadProjects, deleteProject and the answers of the server.                *)

SyncOthersUnchanged == UNCHANGED <<camVars, assetVars, hlVars, authVars, layoutVars,
                                   editorVars, previewVars, fileVars>>

IdsOf(cache) == {cache[i].id : i \in 1..Len(cache)}

\* The list fetchProjects() answers with: one document per id the server holds.
RECURSIVE ListOf(_)
ListOf(ids) ==
    IF ids = {} THEN <<>>
    ELSE LET id == CHOOSE x \in ids : TRUE
         IN <<[id |-> id, stamp |-> 0]>> \o ListOf(ids \ {id})

\* The server stores the document of a create; its answer is under way.
ServerStores(req) ==
    /\ req \in requests /\ req.kind = "POST"
    /\ ~\E st \in storedCreates : st.req = req
    /\ \E rid \in CreatedIds(req.pid) :
          /\ storedCreates' = storedCreates \cup {[req |-> req, rid |-> rid]}
          /\ serverDocs' = serverDocs \cup {rid}
    /\ nextServerId' = nextServerId + 1
    /\ lastOp' = [op |-> "serverStores", arg |-> req.pid]
    /\ UNCHANGED <<project, nodePositions, selectedStepId, cameraMode, projects,
                   pendingCreateIds, requests, clock, serverLog, createsIssued, anyFailed,
                   currentPreviewStepIndex, listRequests, deleteRequests>>
    /\ SyncOthersUnchanged

\* The answer of a stored create arrives: persist() continues after its await.
StoredSaveSucceeds(st) ==
    /\ st \in storedCreates
    /\ projects' = ApplySaved(projects, st.req, [id |-> st.rid, stamp |-> st.req.stamp])
    /\ serverLog' = Append(serverLog, [pid |-> st.req.pid, stamp |-> st.req.stamp])
    /\ pendingCreateIds' = pendingCreateIds \ {st.req.pid}
    /\ requests' = requests \ {st.req}
    /\ storedCreates' = storedCreates \ {st}
    /\ lastOp' = [op |-> "saveSucceeds", arg |-> st.req.pid]
    /\ UNCHANGED <<project, nodePositions, selectedStepId, cameraMode, clock, nextServerId,
                   createsIssued, anyFailed, currentPreviewStepIndex, serverDocs,
                   listRequests, deleteRequests>>
    /\ SyncOthersUnchanged

\* A save the server handles and answers in one step.
SyncSaveSucceeds(req) ==
    /\ ~\E st \in storedCreates : st.req = req
    /\ SaveSucceeds(req)
    /\ serverDocs' = IF req.kind = "POST"
                     THEN serverDocs \cup {projects'[Len(projects')].id}
                     ELSE serverDocs
    /\ UNCHANGED <<storedCreates, listRequests, deleteRequests>>
    /\ SyncOthersUnchanged

NoList == <<>>

\* loadProjects up to its await; the server answers with what it holds then.
LoadProjects(n) ==
    /\ ~\E r \in listRequests : r.n = n
    /\ listRequests' = listRequests \cup {[n |-> n, served |-> FALSE, body |-> NoList]}
    /\ UNCHANGED <<storeVars, serverDocs, storedCreates, deleteRequests>>
    /\ SyncOthersUnchanged

ListServed(r) ==
    /\ r \in listRequests /\ ~r.served
    /\ listRequests' = (listRequests \ {r}) \cup
                          {[r EXCEPT !.served = TRUE, !.body = ListOf(serverDocs)]}
    /\ UNCHANGED <<storeVars, serverDocs, storedCreates, deleteRequests>>
    /\ SyncOthersUnchanged

\* set({ projects })
LoadProjectsSucceeds(r) ==
    /\ r \in listRequests /\ r.served
    /\ projects' = r.body
    /\ listRequests' = listRequests \ {r}
    /\ lastOp' = [op |-> "loadProjects", arg |-> Null]
    /\ UNCHANGED <<project, nodePositions, selectedStepId, cameraMode, pendingCreateIds,
                   requests, clock, nextServerId, serverLog, createsIssued, anyFailed,
                   currentPreviewStepIndex, serverDocs, storedCreates, deleteRequests>>
    /\ SyncOthersUnchanged

LoadProjectsFails(r) ==
    /\ r \in listRequests
    /\ listRequests' = listRequests \ {r}
    /\ UNCHANGED <<storeVars, serverDocs, storedCreates, deleteRequests>>
    /\ SyncOthersUnchanged

\* deleteProject up to its await.
DeleteProject(projectId) ==
    /\ projectId \notin deleteRequests
    /\ deleteRequests' = deleteRequests \cup {projectId}
    /\ UNCHANGED <<storeVars, serverDocs, storedCreates, listRequests>>
    /\ SyncOthersUnchanged

\* The server deleted the document and answered: the set() of deleteProject.
DeleteProjectSucceeds(projectId) ==
    /\ projectId \in deleteRequests
    /\ deleteRequests' = deleteRequests \ {projectId}
    /\ serverDocs' = serverDocs \ {projectId}
    /\ projects' = SelectSeq(projects, LAMBDA p : p.id # projectId)
    /\ project' = IF project.id = projectId THEN NoProject ELSE project
    /\ nodePositions' = IF project.id = projectId THEN NoPositions ELSE nodePositions
    /\ selectedStepId' = IF project.id = projectId THEN Null ELSE selectedStepId
    /\ lastOp' = [op |-> "deleteProject", arg |-> projectId]
    /\ UNCHANGED <<cameraMode, pendingCreateIds, requests, clock, nextServerId, serverLog,
                   createsIssued, anyFailed, currentPreviewStepIndex, storedCreates, listRequests>>
    /\ SyncOthersUnchanged

DeleteProjectFails(projectId) ==
    /\ projectId \in deleteRequests
    /\ deleteRequests' = deleteRequests \ {projectId}
    /\ UNCHANGED <<storeVars, serverDocs, storedCreates, listRequests>>
    /\ SyncOthersUnchanged

InitNoSync ==
    /\ serverDocs = {}
    /\ storedCreates = {}
    /\ listRequests = {}
    /\ deleteRequests = {}

\* The groups added after the mesh highlighting, at rest.
InitLaterIdle ==
    InitNoAuth /\ InitNoLayout /\ InitNoEditor /\ InitNoPreview /\ InitNoFile /\ InitNoSync

\* The later groups at rest.
InitExtraIdle == InitNoHighlight /\ InitLaterIdle

------------------------------------------------------------------------------
(* The store with its persistence.                                           *)

SamplePositions == {NoPositions, [k \in {"s1", "s2"} |-> IF k = "s1" THEN <<0, 0>> ELSE <<100, 0>>]}

\* The store's defaults apart from the open project.
InitStoreDefaults ==
    /\ nodePositions = NoPositions
    /\ selectedStepId = Null
    /\ cameraMode = "free"
    /\ projects = <<>>
    /\ pendingCreateIds = {}
    /\ requests = {}
    /\ clock = 0
    /\ nextServerId = 1
    /\ serverLog = <<>>
    /\ createsIssued = <<>>
    /\ anyFailed = FALSE
    /\ lastOp = [op |-> "init", arg |-> Null]
    /\ currentPreviewStepIndex = 0

InitStore == project = NoProject /\ InitStoreDefaults

\* No canvas is shown: the camera variables rest at their defaults.
InitNoViewer ==
    /\ viewer = "none"
    /\ ctlMounted = FALSE
    /\ camPos = BuilderCameraStart
    /\ camLookAt = Origin
    /\ targetPos = Origin
    /\ targetLookAt = Origin
    /\ previousStepId = Null
    /\ upCameraMode = "free"
    /\ cameraStateRef = NoSnapshot
    /\ ticks = 0
    /\ lastTick = NoTick
    /\ easeFrom = BuilderCameraStart
    /\ easeTicks = 0

\* The editor page before a project is opened, with no canvas shown.
InitEditor == InitStore /\ InitNoViewer /\ InitNoAsset /\ InitExtraIdle

NextStore ==
    \/ \E doc \in SampleDocs, w \in BOOLEAN, pos \in SamplePositions :
          SetProject(doc, w, pos) /\ UNCHANGED <<camVars, assetVars, extraVars>>
    \/ \E pid \in NewProjectIds : CreateNewProject(pid) /\ UNCHANGED <<camVars, assetVars, extraVars>>
    \/ \E id \in StepIds, pos \in Pos2D \cup {NoPos} :
          id \notin StepIdsOf(project) /\ AddStep(id, pos) /\ UNCHANGED <<camVars, assetVars, extraVars>>
    \/ \E id \in StepIds : DeleteStep(id) /\ UNCHANGED <<camVars, assetVars, extraVars>>
    \/ \E id \in StepIds \cup {Null} :
          id \in StepIdsOf(project) \cup {Null} /\ SetSelectedStepId(id) /\ UNCHANGED <<camVars, assetVars, extraVars>>
    \/ \E eid \in ConnIds, s \in StepIds, t \in StepIds :
          OnConnect(eid, s, t) /\ UNCHANGED <<camVars, assetVars, extraVars>>
    \/ \E gid \in {"g1", "g2"}, sid \in StepIds :
          sid \in StepIdsOf(project) /\ AddGuideStep(gid, sid) /\ UNCHANGED <<camVars, assetVars, extraVars>>

SpecStore == InitEditor /\ [][NextStore]_vars

\* Editing a new project while its save requests are answered in any order.
NextSave ==
    \/ \E pid \in NewProjectIds : CreateNewProject(pid) /\ UNCHANGED <<camVars, assetVars, extraVars>>
    \/ \E id \in StepIds :
          id \notin StepIdsOf(project) /\ AddStep(id, NoPos) /\ UNCHANGED <<camVars, assetVars, extraVars>>
    \/ \E id \in StepIds :
          id \in StepIdsOf(project) /\ DeleteStep(id) /\ UNCHANGED <<camVars, assetVars, extraVars>>
    \/ \E req \in requests : SaveSucceeds(req) /\ UNCHANGED <<camVars, assetVars, extraVars>>
    \/ \E req \in requests : SaveFails(req) /\ UNCHANGED <<camVars, assetVars, extraVars>>

SpecSave == InitEditor /\ [][NextSave]_vars

------------------------------------------------------------------------------
(* The canvases with their camera controllers.                               *)

\* The editor page with the builder canvas, before a project is opened.
InitBuilder ==
    /\ InitStore
    /\ viewer = "builder"
    /\ ctlMounted = FALSE
    /\ camPos = BuilderCameraStart
    /\ camLookAt = Origin
    /\ targetPos = Origin
    /\ targetLookAt = Origin
    /\ previousStepId = Null
    /\ upCameraMode = "free"
    /\ cameraStateRef = NoSnapshot
    /\ easeFrom = BuilderCameraStart

\* An uploaded-model project opened in its preview (auto) or its editor (free).
InitUpload(host) ==
    /\ InitStoreDefaults
    /\ project = UploadDoc
    /\ viewer = host
    /\ ctlMounted = TRUE
    /\ camPos = UploadCameraStart
    /\ camLookAt = Origin
    /\ upCameraMode = IF host = "uploadPreview" THEN "auto" ELSE "free"
    /\ targetPos = IF host = "uploadPreview" THEN PreviewTarget(0).pos ELSE UploadCameraStart
    /\ targetLookAt = IF host = "uploadPreview" THEN PreviewTarget(0).lookAt ELSE Origin
    /\ previousStepId = Null
    /\ cameraStateRef = NoSnapshot
    /\ easeFrom = UploadCameraStart

InitCamera ==
    /\ InitBuilder \/ InitUpload("uploadPreview") \/ InitUpload("uploadEditor")
    /\ InitNoAsset
    /\ InitExtraIdle
    /\ ticks = 0
    /\ lastTick = NoTick
    /\ easeTicks = 0

NextCamera ==
    \/ \E doc \in SampleDocs, pos \in SamplePositions \ {NoPositions} :
          clock < MaxOpens /\ CamSetProject(doc, TRUE, pos)
    \/ \E id \in StepIds \cup {Null} :
          id \in StepIdsOf(project) \cup {Null} /\ CamSetSelectedStepId(id)
    \/ \E mode \in {"auto", "free"} : CamSetCameraMode(mode)
    \/ TickBuilder
    \/ \E mode \in {"auto", "free"} : UpSetCameraMode(mode)
    \/ \E index \in 0..(Len(UploadDoc.steps) - 1) : UpGoToStep(index)
    \/ TickUpload
    \/ \E pose \in UserPoses : UserOrbit(pose)

SpecCamera == InitCamera /\ [][NextCamera]_vars

------------------------------------------------------------------------------
(* The builder canvas next to the creator, whose nodes the user drags.       *)

\* The node the user drags in the creator, and where it is dropped.
DraggedNodes == {"s2"}

DragPositions == {<<300, 0>>}

\* The sample project, opened (and re-opened) with its saved node positions.
SampleProject == CHOOSE doc \in SampleDocs : doc.id = "sample-project-1"

InitBuilderCamera ==
    /\ InitBuilder
    /\ InitNoAsset
    /\ InitExtraIdle
    /\ ticks = 0
    /\ lastTick = NoTick
    /\ easeTicks = 0

NextBuilderCamera ==
    \/ \E pos \in SamplePositions \ {NoPositions} :
          clock < MaxOpens /\ CamSetProject(SampleProject, TRUE, pos)
    \/ \E id \in StepIds \cup {Null} :
          id \in StepIdsOf(project) \cup {Null} /\ CamSetSelectedStepId(id)
    \/ \E mode \in {"auto", "free"} : CamSetCameraMode(mode)
    \/ \E id \in DraggedNodes, position \in DragPositions :
          /\ clock < MaxOpens
          /\ id \in StepIdsOf(project) \cap DOMAIN nodePositions
          /\ nodePositions[id] # position
          /\ CamUpdateNodePosition(id, position)
    \/ TickBuilder

SpecBuilderCamera == InitBuilderCamera /\ [][NextBuilderCamera]_vars

------------------------------------------------------------------------------
(* The URL conversions on their own.                                         *)

\* UploadedModelCanvas mounted in the upload editor with some model url.
InitUploadCanvas ==
    /\ InitStoreDefaults /\ project = UploadDoc
    /\ InitNoViewer
    /\ \E u \in ModelUrls : InitAsset("useBlobUrl", u)
    /\ InitExtraIdle

NextUploadCanvas ==
    \/ \E u \in ModelUrls : UbChangeUrl(u)
    \/ UbUnmount
    \/ \E i \in 1..MaxEffects : UbFetchResolves(i)
    \/ \E i \in 1..MaxEffects : UbFetchRejects(i)
    \/ GltfLoaded
    \/ GltfFails

SpecUploadCanvas == InitUploadCanvas /\ [][NextUploadCanvas]_vars

\* One custom-model step of the builder canvas.
InitCustomModel ==
    /\ InitStoreDefaults /\ project \in SampleDocs
    /\ InitNoViewer
    /\ \E u \in ModelUrls : InitAsset("CustomModel", u)
    /\ InitExtraIdle

NextCustomModel ==
    \/ \E u \in ModelUrls : CmChangeUrl(u)
    \/ CmUnmount
    \/ \E i \in 1..MaxEffects : CmFetchResolves(i)
    \/ \E i \in 1..MaxEffects : CmFetchRejects(i)

SpecCustomModel == InitCustomModel /\ [][NextCustomModel]_vars

------------------------------------------------------------------------------
(* ModelRenderer on its own.                                                 *)

HighlightLists == {<<>>, <<Highlight("wheel", StepHex)>>,
                   <<Highlight("", StepHex), Highlight("body", StepHex)>>}

InitModelRenderer ==
    /\ InitStoreDefaults /\ project = UploadDoc
    /\ InitNoViewer
    /\ InitNoAsset
    /\ InitHighlight
    /\ InitLaterIdle

NextModelRenderer ==
    \/ \E pick \in BOOLEAN : SetPickMode(pick)
    \/ \E name \in {Null, "", "body", "wheel"} : SetFocusedMeshName(name)
    \/ \E hls \in HighlightLists : SetStepHighlights(hls)
    \/ \E m \in Meshes : PointerMove(m)
    \/ PointerLeave

SpecModelRenderer == InitModelRenderer /\ [][NextModelRenderer]_vars

------------------------------------------------------------------------------
(* apiRequest on its own: concurrent calls, answers in any order.            *)

NextApiRequest ==
    \/ \E c \in Calls : ApiRequest(c)
    \/ \E c \in Calls, status \in Statuses : FetchResponds(c, status)
    \/ \E c \in Calls : FetchThrows(c)
    \/ \E c \in Calls, ok \in BOOLEAN : RefreshResponds(c, ok)
    \/ \E c \in Calls : RefreshThrows(c)
    \/ \E c \in Calls, status \in Statuses : RetryResponds(c, status)
    \/ \E c \in Calls : RetryThrows(c)

SpecApiRequest == InitEditor /\ [][NextApiRequest]_vars

------------------------------------------------------------------------------
(* The upload editor with its canvas: a freshly uploaded project.            *)

\* The project NewProjectDialog creates for an uploaded model: no steps yet.
UploadedProject == [UploadDoc EXCEPT !.steps = <<>>]

InitUploadEditor ==
    /\ InitStoreDefaults /\ project = UploadedProject
    /\ viewer = "uploadEditor" /\ ctlMounted = TRUE
    /\ camPos = UploadCameraStart /\ camLookAt = Origin
    /\ upCameraMode = "free"
    /\ targetPos = UploadCameraStart /\ targetLookAt = Origin
    /\ previousStepId = Null
    /\ cameraStateRef = NoSnapshot
    /\ easeFrom = UploadCameraStart
    /\ ticks = 0 /\ lastTick = NoTick /\ easeTicks = 0
    /\ InitNoAsset /\ InitNoHighlight /\ InitNoAuth /\ InitNoLayout /\ InitNoEditor
    /\ InitNoPreview /\ InitNoFile /\ InitNoSync

NextUploadEditor ==
    \/ OpenAddForm
    \/ \E id \in StepIds : OpenEditForm(id)
    \/ \E id \in StepIds : StepRowClick(id)
    \/ SetTitle
    \/ HandleEnterPickMode
    \/ \E m \in Meshes : HandleMeshPicked(m)
    \/ HandleCaptureCamera
    \/ HandleSaveStep
    \/ HandleCancelEdit
    \/ \E id \in StepIds : HandleDeleteStep(id)
    \/ \E pose \in UserPoses : UserOrbit(pose)
    \/ TickUpload

SpecUploadEditor == InitUploadEditor /\ [][NextUploadEditor]_vars

------------------------------------------------------------------------------
(* Preview mode over the documents a project list can hold.                  *)

\* A stored document whose guide names only steps that no longer exist.
DanglingDoc == [id |-> "doc-3", steps |-> <<"s1", "s2">>, connections |-> <<>>,
                guide |-> <<Guide("g1", "s3")>>, hasGuide |-> TRUE]

PreviewDocs == SampleDocs \cup {DanglingDoc}

MaxPreviewIndex == 2

InitPreview == InitEditor

NextPreview ==
    \/ \E doc \in PreviewDocs : PreviewSetProject(doc)
    \/ \E b \in BOOLEAN : SetPreviewMode(b)
    \/ PreviewPrevious
    \/ PreviewNext
    \/ \E index \in 0..MaxPreviewIndex : PreviewJump(index)
    \/ \E id \in StepIds : PreviewDeleteStep(id)

SpecPreview == InitPreview /\ [][NextPreview]_vars

------------------------------------------------------------------------------
(* The file inputs on their own: the user picks one file after another.      *)

InitFileInputs == InitEditor

NextFileInputs ==
    \/ \E file \in Files : HandleFileUpload(file)
    \/ \E file \in Files : StepFileChange(file)

SpecFileInputs == InitFileInputs /\ [][NextFileInputs]_vars

------------------------------------------------------------------------------
(* Saves, list loads and deletes against the server, answered in any order.  *)

MaxLoads == 2

InitSync == InitEditor

NextSync ==
    \/ \E pid \in NewProjectIds : CreateNewProject(pid) /\ UNCHANGED <<camVars, assetVars, extraVars>>
    \/ "s1" \notin StepIdsOf(project) /\ AddStep("s1", NoPos) /\ UNCHANGED <<camVars, assetVars, extraVars>>
    \/ \E req \in requests : ServerStores(req)
    \/ \E st \in storedCreates : StoredSaveSucceeds(st)
    \/ \E req \in requests : SyncSaveSucceeds(req)
    \/ \E n \in 1..MaxLoads : LoadProjects(n)
    \/ \E r \in listRequests : ListServed(r)
    \/ \E r \in listRequests : LoadProjectsSucceeds(r)
    \/ \E r \in listRequests : LoadProjectsFails(r)
    \/ \E projectId \in IdsOf(projects) : DeleteProject(projectId)
    \/ \E projectId \in deleteRequests : DeleteProjectSucceeds(projectId)
    \/ \E projectId \in deleteRequests : DeleteProjectFails(projectId)

SpecSync == InitSync /\ [][NextSync]_vars

------------------------------------------------------------------------------
(* The layout functions on their own: one call per behaviour.                *)

LayoutNames == <<"n1", "n2", "n3", "n4", "n5", "n6">>

\* Sequences of at most n distinct members of S.
RECURSIVE DistinctSeqs(_, _)
DistinctSeqs(S, n) ==
    IF n = 0 THEN {<<>>}
    ELSE LET shorter == DistinctSeqs(S, n - 1)
         IN shorter \cup {Append(x[1], x[2]) :
                            x \in {y \in shorter \X S : y[2] \notin Range(y[1])}}

\* Connection lists over the first n steps: at most n connections, each from
\* an earlier step of the array to a later one, so the graph has no cycle.
ForwardGraphs(n) ==
    DistinctSeqs({Edge(LayoutNames[y[1]], LayoutNames[y[2]]) :
                    y \in {z \in (1..n) \X (1..n) : z[1] < z[2]}}, n)

SamplePoints == {<<0, 0>>, <<100, 0>>, <<300, 200>>}

\* nodePositions objects: any subset of the first n steps has a position.
PositionMaps(n) ==
    UNION {[P -> SamplePoints] : P \in SUBSET {LayoutNames[i] : i \in 1..n}}

InitLayout ==
    /\ InitStore /\ InitNoViewer /\ InitNoAsset /\ InitNoHighlight /\ InitNoAuth
    /\ InitNoEditor /\ InitNoPreview /\ InitNoFile /\ InitNoSync
    /\ \E n \in 0..MaxLayoutSteps :
          /\ layoutSteps = SubSeq(LayoutNames, 1, n)
          /\ \/ layoutConnections \in ForwardGraphs(n) /\ layoutNodePositions = NoPositions
             \/ layoutConnections = <<>> /\ layoutNodePositions \in PositionMaps(n)
    /\ layoutResult = [fn |-> "none", out |-> NoLayout]
    /\ bfs = NoBfs

NextLayout ==
    \/ RunHierarchicalLayout
    \/ RunCreatorLayout

SpecLayout == InitLayout /\ [][NextLayout]_vars

------------------------------------------------------------------------------
(* One call of calculateHierarchicalLayout on any connection graph.          *)

MaxRunSteps == 3

\* An id that is the endpoint of connections but not a step.
GhostId == "ghost"

\* Sets of at most k members of S.
RECURSIVE SetsUpTo(_, _)
SetsUpTo(S, k) ==
    IF k = 0 THEN {{}}
    ELSE LET smaller == SetsUpTo(S, k - 1)
         IN smaller \cup {x[1] \cup {x[2]} : x \in smaller \X S}

RECURSIVE ListOfEdges(_)
ListOfEdges(es) ==
    IF es = {} THEN <<>>
    ELSE LET e == CHOOSE x \in es : TRUE IN <<e>> \o ListOfEdges(es \ {e})

\* Connection lists over the first n steps and the ghost id: any direction,
\* self-loops and cycles included, at most MaxRunSteps connections.
AnyGraphs(n) ==
    LET ids == {LayoutNames[i] : i \in 1..n} \cup {GhostId}
    IN {ListOfEdges(es) : es \in SetsUpTo({Edge(y[1], y[2]) : y \in ids \X ids}, MaxRunSteps)}

InitLayoutRun ==
    /\ InitStore /\ InitNoViewer /\ InitNoAsset /\ InitNoHighlight /\ InitNoAuth
    /\ InitNoEditor /\ InitNoPreview /\ InitNoFile /\ InitNoSync
    /\ \E n \in 0..MaxRunSteps :
          /\ layoutSteps = SubSeq(LayoutNames, 1, n)
          /\ layoutConnections \in AnyGraphs(n)
    /\ layoutNodePositions = NoPositions
    /\ layoutResult = [fn |-> "none", out |-> NoLayout]
    /\ bfs = NoBfs

NextLayoutRun ==
    \/ StartBfs
    \/ BfsIteration
    \/ BfsReturn

\* The call runs to its end once made: JavaScript runs it without interruption.
SpecLayoutRun == InitLayoutRun /\ [][NextLayoutRun]_vars /\ WF_vars(NextLayoutRun)

------------------------------------------------------------------------------
(* Properties.                                                               *)

Count(seq, x) == Cardinality({i \in 1..Len(seq) : seq[i] = x})

\* new is old with exactly the elements satisfying Hit removed: every other
\* element is still there, unchanged, at its position among the survivors.
KeptExactly(old, new, Hit(_)) ==
    LET removedUpTo(i) == Cardinality({j \in 1..i : Hit(old[j])})
    IN /\ Len(new) = Len(old) - removedUpTo(Len(old))
       /\ \A i \in 1..Len(old) : ~Hit(old[i]) => new[i - removedUpTo(i)] = old[i]

\* C1: after deleteStep(s) the project has no step s, no connection whose
\* source or target is s and no guide entry for s; every other step, connection
\* and guide entry is kept unchanged and in its original relative order.
C1_DeleteStepCascade ==
    [][\A s \in StepIds :
         (lastOp' = [op |-> "deleteStep", arg |-> s] /\ clock' = clock + 1) =>
            /\ s \notin StepIdsOf(project')
            /\ \A i \in 1..Len(project'.connections) :
                  project'.connections[i].source # s /\ project'.connections[i].target # s
            /\ \A i \in 1..Len(GuideOf(project')) : GuideOf(project')[i].stepId # s
            /\ KeptExactly(project.steps, project'.steps, LAMBDA x : x = s)
            /\ KeptExactly(project.connections, project'.connections,
                           LAMBDA e : e.source = s \/ e.target = s)
            /\ KeptExactly(GuideOf(project), GuideOf(project'), LAMBDA g : g.stepId = s)
      ]_vars

\* A deletion that removed a connection and a guide entry and kept others.
C1_Witness ==
    /\ lastOp = [op |-> "deleteStep", arg |-> "s2"]
    /\ project.id = "doc-2"
    /\ project.steps = <<"s1">>
    /\ project.connections = <<Conn("e1", "s1", "s3", "neon")>>
    /\ project.guide = <<Guide("g2", "s3"), Guide("g3", "s1")>>

\* C2: with every request succeeding, at most one create (POST) is ever issued
\* for a project that was absent from the cache; saves made while the create
\* is in flight or after it completed are updates (PUT).
C2_SingleCreate ==
    ~anyFailed => \A pid \in NewProjectIds : Count(createsIssued, pid) <= 1

\* C7: the rendered connection list holds exactly the project's connections
\* whose source and target are both step ids, in order, each pointing at steps
\* with those ids; dangling connections are left out.
IsValidConn(p, c) == c.source \in StepIdsOf(p) /\ c.target \in StepIdsOf(p)

C7_ConnectionPruning ==
    LET built == BuildConnections(project)
        conns == project.connections
        droppedUpTo(i) == Cardinality({j \in 1..i : ~IsValidConn(project, conns[j])})
    IN /\ Len(built) = Len(conns) - droppedUpTo(Len(conns))
       /\ \A i \in 1..Len(conns) :
             IsValidConn(project, conns[i]) =>
                LET b == built[i - droppedUpTo(i)]
                IN /\ b.sourceIndex \in 1..Len(project.steps)
                   /\ b.targetIndex \in 1..Len(project.steps)
                   /\ project.steps[b.sourceIndex] = conns[i].source
                   /\ project.steps[b.targetIndex] = conns[i].target

\* A project with one dangling and one valid connection has been rendered.
C7_Witness ==
    /\ \E i \in 1..Len(project.connections) : ~IsValidConn(project, project.connections[i])
    /\ Len(BuildConnections(project)) >= 1
    /\ Len(BuildConnections(project)) < Len(project.connections)

------------------------------------------------------------------------------
(* Camera properties.                                                        *)

\* The cameraMode prop the mounted CameraController sees.
ModeSeen == IF viewer = "builder" THEN cameraMode ELSE upCameraMode

IsTick == ticks' = ticks + 1

\* C3: a frame rendered while the camera mode is free leaves the live eye and
\* the live look-at point exactly where they were, in both canvases, also when
\* an interpolation was under way when the mode became free.
C3_FreeTicksKeepPose ==
    [][(IsTick /\ ModeSeen = "free") => (camPos' = camPos /\ camLookAt' = camLookAt)]_vars

\* A frame was rendered in free mode after the eye had already been moved part
\* of the way to a target it has not reached.
C3_Witness ==
    /\ lastTick.mode = "free" /\ ~lastTick.lerped
    /\ easeTicks >= 1
    /\ camPos # easeFrom /\ camPos # targetPos

\* C4: user camera controls are never enabled in a frame in which the
\* controller interpolates the camera, so one source at most moves the pose.
C4_SingleMutatorPerTick == ~(lastTick.lerped /\ lastTick.orbitEnabled)

\* C5: in auto mode with no current step, or one that names no step of the
\* project, the controller's target is the overview pose (0,20,35) -> (0,0,0).
C5_OverviewWhenNoStep ==
    (viewer = "builder" /\ ctlMounted /\ cameraMode = "auto"
        /\ (selectedStepId = Null \/ selectedStepId \notin StepIdsOf(project)))
    => (targetPos = OverviewPos /\ targetLookAt = Origin)

Abs(x) == IF x < 0 THEN -x ELSE x

Pow(b, n) == b ^ n

\* Frames needed from a gap d0 to get within eps on one axis: the least n with
\* d0 * 19^n < eps * 20^n (0 when the gap is already smaller).
RECURSIVE TicksNeeded(_, _)
TicksNeeded(d0, eps) == IF d0 < eps THEN 0 ELSE 1 + TicksNeeded((d0 * 19) \div 20, eps)

Epsilons == {(Scale * 9) \div 10, Scale * 5, Scale * 30}

\* C6, one frame: in auto mode the eye moves on every axis by exactly a
\* twentieth of its gap to the target, towards it and never past it, so the
\* gap does not grow.
C6_StepLaw ==
    [][(IsTick /\ ModeSeen = "auto") =>
         \A i \in 1..3 :
            LET gap == targetPos[i] - camPos[i]
                gapAfter == targetPos[i] - camPos'[i]
            IN /\ 20 * (camPos'[i] - camPos[i]) = gap
               /\ Abs(gapAfter) <= Abs(gap)
               /\ (gap >= 0 => gapAfter >= 0) /\ (gap <= 0 => gapAfter <= 0)
      ]_vars

\* C6, a run of n frames with the target fixed: the gap on every axis is the
\* starting gap times (19/20)^n, and it is below eps once n reaches the frame
\* count computed from the starting gap.
C6_GeometricConvergence ==
    (ModeSeen = "auto" /\ ctlMounted) =>
        \A i \in 1..3 :
           LET gap0 == easeFrom[i] - targetPos[i]
           IN /\ camPos[i] - targetPos[i] = (gap0 \div Pow(20, easeTicks)) * Pow(19, easeTicks)
              /\ \A eps \in Epsilons :
                    easeTicks >= TicksNeeded(Abs(gap0), eps) => Abs(camPos[i] - targetPos[i]) < eps

\* C6: each frame obeys the step law and a run obeys the geometric law.
C6_LerpConverges == C6_StepLaw /\ []C6_GeometricConvergence

\* The eye has been interpolated for every frame of the run, has left its start
\* and is strictly nearer the target on some axis without having reached it.
C6_Witness ==
    /\ ModeSeen = "auto" /\ lastTick.lerped
    /\ easeTicks = MaxTicks
    /\ \E i \in 1..3 :
          /\ camPos[i] # targetPos[i]
          /\ Abs(camPos[i] - targetPos[i]) < Abs(easeFrom[i] - targetPos[i])
          /\ \E eps \in Epsilons :
                /\ Abs(easeFrom[i] - targetPos[i]) >= eps
                /\ Abs(camPos[i] - targetPos[i]) < eps

------------------------------------------------------------------------------
(* Asset properties.                                                         *)

IsRevoked(h) == \E r \in revoked : r.handle = h

\* The fetch that created the handle h.
CreatorOf(h) == CHOOSE i \in 1..Len(fetches) : fetches[i].handle = h

\* C8: useBlobUrl never applies a result that arrives after its effect was
\* cleaned up (no handle is created for it); every handle created is either
\* still held by the live effect that created it or was revoked by that
\* effect's cleanup; after teardown none is left unrevoked.
C8_NoLeakNoLateResult ==
    assetHost = "useBlobUrl" =>
        /\ \A i \in 1..Len(fetches) : fetches[i].late => fetches[i].handle = NoUrl
        /\ \A h \in created :
              \/ \E r \in revoked : r.handle = h /\ r.by = CreatorOf(h)
              \/ mounted /\ blobUrlRef = h /\ activeFetch = CreatorOf(h)
        /\ ~mounted => \A h \in created : IsRevoked(h)
        /\ (mounted /\ blobUrl # NoUrl) => (blobUrl = blobUrlRef /\ ~IsRevoked(blobUrl))

\* After teardown: one conversion arrived late and was dropped, another had
\* been applied and its handle was revoked.
C8_Witness ==
    /\ assetHost = "useBlobUrl" /\ ~mounted
    /\ \E i \in 1..Len(fetches) : fetches[i].status = "discarded"
    /\ \E i \in 1..Len(fetches) : fetches[i].status = "applied" /\ IsRevoked(fetches[i].handle)

\* C9: every handle CustomModel creates is revoked unless it belongs to the
\* current url of the mounted component, and the handle displayed is never one
\* of a superseded url.
C9_HandlesReleased ==
    assetHost = "CustomModel" =>
        /\ \A h \in created :
              \/ IsRevoked(h)
              \/ mounted /\ blobUrlRef = h /\ fetches[CreatorOf(h)].url = url
        /\ (mounted /\ blobUrl.scheme = "blob") => fetches[CreatorOf(blobUrl)].url = url

\* C10: a failed load of the uploaded model is caught by the model's own error
\* boundary, which shows the error placeholder.
C10_FailureCaughtByModelBoundary ==
    gltf.status = "failed" => caughtBy = "ModelErrorBoundary"

------------------------------------------------------------------------------
(* Highlight properties.                                                     *)

\* C11: a mesh with an emissive material that is not under the pointer in pick
\* mode, is not the focused mesh and is not named in the highlight list has
\* exactly the emissive colour and intensity recorded when the clone was made.
C11_UnhighlightedKeepsOriginal ==
    \A m \in DOMAIN OrigEmissive :
        (/\ ~(isPickMode /\ pointerOver = m)
         /\ ~IsFocused(focusedMeshName, m)
         /\ StepHl(stepHighlights, m) = 0)
        => emissive[m] = OrigEmissive[m]

\* C12: a mesh carries the hover highlight only while pick mode is on and the
\* pointer is over that mesh.
C12_HoverOnlyUnderPointer ==
    \A m \in Meshes :
        (HasEmissive[m] /\ emissiveRule[m] = "hover") => (isPickMode /\ pointerOver = m)

------------------------------------------------------------------------------
(* Persistence properties.                                                   *)

IsSaveFailure == lastOp'.op = "saveFails" /\ <<requests, anyFailed, lastOp>>' # <<requests, anyFailed, lastOp>>

\* C13: a failed save leaves the project, the node positions, the selection
\* and the projects cache as they were, and starts no request: the failed
\* request just leaves the set of requests in flight.
C13_FailureKeepsEdit ==
    [][IsSaveFailure =>
         /\ UNCHANGED <<project, nodePositions, selectedStepId, projects>>
         /\ \E req \in requests : requests' = requests \ {req}
         /\ UNCHANGED <<clock, createsIssued>>
      ]_vars

\* A save failed after an edit: the edited project is open, absent from the
\* cache, and nothing is in flight.
C13_Witness ==
    /\ lastOp.op = "saveFails" /\ anyFailed
    /\ project.id # Null /\ Len(project.steps) >= 1
    /\ ~CacheHas(projects, project.id)
    /\ requests = {}

\* The snapshots of the project pid the server stored, oldest first.
StoredStamps(pid) == SelectSeq(serverLog, LAMBDA w : w.pid = pid)

\* C14: once nothing is in flight, the server holds the snapshot of the latest
\* saveToApi call among those whose request succeeded.
C14_LatestDeliveredPersists ==
    (requests = {} /\ project.id # Null /\ StoredStamps(project.id) # <<>>) =>
        LET stored == StoredStamps(project.id)
        IN \A i \in 1..Len(stored) : stored[i].stamp <= stored[Len(stored)].stamp

------------------------------------------------------------------------------
(* Token refresh.                                                            *)

At(pos) == {c \in Calls : calls[c].at = pos}

Queued == {failedQueue[i] : i \in 1..Len(failedQueue)}

\* At most one refresh request is in flight, the flag is set exactly while it
\* is, and the queue holds exactly the calls waiting for it.
OneRefreshInFlight ==
    /\ Cardinality(At("refresh")) <= 1
    /\ isRefreshing <=> At("refresh") # {}
    /\ Queued = At("queued")
    /\ (failedQueue # <<>> => isRefreshing)

\* A first fetch answered 401 while a refresh is in flight starts no refresh
\* and queues the call.
QueuedWhileRefreshing ==
    \A c \in Calls :
        (isRefreshing /\ calls[c].at = "fetch" /\ calls'[c].at # "fetch"
           /\ calls'[c].status = Unauthorized) =>
            /\ failedQueue' = Append(failedQueue, c)
            /\ UNCHANGED <<refreshLog, isRefreshing>>

\* The step that ends a refresh settles every queued call and empties the queue.
RefreshSettlesQueue ==
    (isRefreshing /\ ~isRefreshing') =>
        /\ failedQueue' = <<>>
        /\ \A c \in Queued :
              calls'[c].at = IF lastRefresh' = "ok" THEN "retry" ELSE "rejected"

\* C15: concurrent 401 answers share one token refresh: no second refresh
\* starts while one is in flight, the other calls are queued, and the end of
\* the refresh replays (success) or rejects (failure) every queued call and
\* leaves the queue empty and isRefreshing cleared.
C15_SharedRefresh ==
    /\ []OneRefreshInFlight
    /\ [][QueuedWhileRefreshing /\ RefreshSettlesQueue]_vars

C15_Witness ==
    /\ ~isRefreshing /\ failedQueue = <<>>
    /\ Len(refreshLog) = 1 /\ lastRefresh = "ok"
    /\ Cardinality({c \in Calls : calls[c].viaQueue /\ calls[c].at = "retry"}) >= 2

------------------------------------------------------------------------------
(* Layout.                                                                   *)

DepthOf(id) == layoutResult.out[id].depth

\* C16: for an acyclic connection graph the depths of calculateHierarchicalLayout
\* form a layering: depth 0 for steps without incoming connection, and
\* depth(v) >= depth(u) + 1 for every connection u -> v.
C16_ValidLayering ==
    (layoutResult.fn = "hierarchical" /\ layoutSteps # <<>>) =>
        /\ \A i \in 1..Len(layoutSteps) :
              ~HasIncoming(layoutConnections, layoutSteps[i]) => DepthOf(layoutSteps[i]) = 0
        /\ \A i \in 1..Len(layoutConnections) :
              DepthOf(layoutConnections[i].target) >= DepthOf(layoutConnections[i].source) + 1

RECURSIVE SumCoord(_, _, _)
SumCoord(out, ids, axis) ==
    IF ids = <<>> THEN 0 ELSE out[Head(ids)].pos[axis] + SumCoord(out, Tail(ids), axis)

PlacedSteps == {id \in Range(layoutSteps) : id \in DOMAIN layoutNodePositions}

\* C17: with at least one authored position and no two steps at the same
\* position, the projected X and Z coordinates of calculateCreatorBasedLayout
\* have mean 0 over all steps.
C17_CentroidAtOrigin ==
    (/\ layoutResult.fn = "creator"
     /\ PlacedSteps # {}
     /\ \A a, b \in PlacedSteps : a # b => layoutNodePositions[a] # layoutNodePositions[b]) =>
        /\ SumCoord(layoutResult.out, layoutSteps, 1) = 0
        /\ SumCoord(layoutResult.out, layoutSteps, 3) = 0

\* C18: without any authored position the step at array index i is placed at
\* (4*i, 0, 0), so N steps get N pairwise distinct positions.
C18_FallbackRow ==
    (layoutResult.fn = "creator" /\ PlacedSteps = {}) =>
        /\ \A i \in 1..Len(layoutSteps) :
              layoutResult.out[layoutSteps[i]].pos = V(4 * (i - 1), 0, 0)
        /\ Cardinality({layoutResult.out[id].pos : id \in Range(layoutSteps)}) = Len(layoutSteps)

C18_Witness ==
    /\ layoutResult.fn = "creator" /\ PlacedSteps = {}
    /\ Len(layoutSteps) >= 3
    /\ layoutResult.out[layoutSteps[3]].pos = V(8, 0, 0)

------------------------------------------------------------------------------
(* Camera targets.                                                           *)

\* The projected position of the step the store selects, in the layout of the
\* project and node positions the store holds.
ProjectedStep == CalculateCreatorBasedLayout(project.steps, nodePositions)[selectedStepId]

StepChangesInAuto ==
    /\ viewer = "builder" /\ ctlMounted'
    /\ cameraMode = "auto" /\ cameraMode' = "auto"
    /\ selectedStepId' # selectedStepId
    /\ selectedStepId' \in StepIdsOf(project')

\* C19: in auto mode, when the current step becomes a step of the project
\* projected at (x,0,z), the target eye is (x, 15, z+35) and the target look-at
\* is (x,0,z).
C19_TargetOverStep ==
    [][StepChangesInAuto =>
         /\ targetPos' = <<ProjectedStep'[1], 15 * Scale, ProjectedStep'[3] + 35 * Scale>>
         /\ targetLookAt' = <<ProjectedStep'[1], 0, ProjectedStep'[3]>>
      ]_vars

\* The effect has resolved the selected step in auto mode, for a step that is
\* not projected onto the origin.
C19_Witness ==
    /\ viewer = "builder" /\ ctlMounted /\ cameraMode = "auto"
    /\ selectedStepId \in StepIdsOf(project) /\ previousStepId = selectedStepId
    /\ ProjectedStep[1] # 0
    /\ targetPos = <<ProjectedStep[1], 15 * Scale, ProjectedStep[3] + 35 * Scale>>
    /\ targetLookAt = ProjectedStep

SwitchToAuto == ModeSeen = "free" /\ ModeSeen' = "auto"

\* A frame in auto mode whose predecessor frame was rendered in free mode.
FirstAutoTickAfterFree == IsTick /\ lastTick.mode = "free" /\ ModeSeen = "auto"

HasCurrentStep ==
    IF viewer = "builder" THEN ctlMounted /\ selectedStepId \in StepIdsOf(project)
    ELSE viewer = "uploadPreview"

\* The pose that focuses the current step.
FocusPose ==
    IF viewer = "builder" THEN ResolveTarget(project, nodePositions, selectedStepId)
    ELSE PreviewTarget(currentPreviewStepIndex)

\* C20: the switch from free to auto leaves the live pose as it is, and the
\* frames after it ease from the live pose towards the focus pose of the
\* current step, whatever happened to the selection while the mode was free.
C20_ResumeTowardsCurrentStep ==
    [][/\ SwitchToAuto => (camPos' = camPos /\ camLookAt' = camLookAt)
       /\ (FirstAutoTickAfterFree /\ HasCurrentStep) =>
             /\ camPos' = Lerp(camPos, FocusPose.pos)
             /\ camLookAt' = Lerp(camLookAt, FocusPose.lookAt)
      ]_vars

------------------------------------------------------------------------------
(* Upload editor and playback.                                               *)

HasFocusMesh(id) == edStepData[id].focusMeshName # ""

\* C21: in the playback of an upload project, a step with a focus mesh is
\* looked at in the recorded centre of that mesh, from the step's authored or
\* captured camera position.
C21_LookAtFocusPoint ==
    \A id \in DOMAIN edStepData :
        HasFocusMesh(id) =>
            /\ PlaybackTarget(id).lookAt = V(edStepData[id].focusPoint[1],
                                             edStepData[id].focusPoint[2],
                                             edStepData[id].focusPoint[3])
            /\ PlaybackTarget(id).pos = V(edStepData[id].cameraPosition[1],
                                          edStepData[id].cameraPosition[2],
                                          edStepData[id].cameraPosition[3])

\* C27: in the upload editor pick mode is on only while a form is open, so
\* every completed mesh pick is recorded into the step being edited.
C27_PickModeOnlyWhileEditing ==
    /\ edIsPickMode => editingStep.open
    /\ lastPick.made => lastPick.recorded

------------------------------------------------------------------------------
(* Builder playback.                                                         *)

\* C22: the playback sequence is the guide mapped to its steps (all steps
\* without a guide), and entries whose step is gone are skipped without an
\* error: a preview entered on its first entry renders, whatever the guide.
C22_DanglingSkippedWithoutError ==
    (isPreviewMode /\ currentPreviewStepIndex = 0) => previewRender.kind # "typeError"

\* C28: while preview mode is on and the playback sequence is not empty,
\* currentPreviewStepIndex is an index into the playback sequence.
C28_PreviewIndexValid ==
    (isPreviewMode /\ Len(PlaybackSequence(project)) > 0) =>
        currentPreviewStepIndex \in 0..(Len(PlaybackSequence(project)) - 1)

------------------------------------------------------------------------------
(* Model file validation.                                                    *)

GltfTypes == {"model/gltf+json", "model/gltf-binary"}

\* Neither the extension nor the MIME type of the file is GLTF/GLB.
NotGltf(file) == ~NameMatches(file) /\ file.type \notin GltfTypes

\* C23: in both upload paths a file over 50 MB, or one that is GLTF/GLB
\* neither by extension nor by MIME type, is rejected with a message and the
\* input cleared before any read of the file starts.
C23_InvalidFileRejected ==
    (fileInput.input # "none" /\ (fileInput.file.size > MaxSize \/ NotGltf(fileInput.file))) =>
        fileOutcome = Rejected

------------------------------------------------------------------------------
(* apiRequest: one retry per call.                                           *)

RefreshesBy(c) == Cardinality({i \in 1..Len(refreshLog) : refreshLog[i] = c})

\* A call causes at most one refresh request and sends its request at most twice.
OneRefreshTwoSends == \A c \in Calls : RefreshesBy(c) <= 1 /\ sends[c] <= 2

\* The answer to a retried request, 401 included, goes to the caller and
\* starts neither a refresh nor another send.
RetryAnswerReturned ==
    \A c \in Calls :
        (calls[c].at = "retry" /\ calls'[c].at # "retry" /\ calls'[c].at # "rejected") =>
            /\ calls'[c].at = "resolved"
            /\ UNCHANGED <<refreshLog, isRefreshing, failedQueue, sends>>

\* C24: a request made through apiRequest is retried at most once after a
\* 401: the answer to the retry is returned as it is, so one call causes at
\* most one refresh request and at most two sends of the request.
C24_RetriedAtMostOnce ==
    /\ []OneRefreshTwoSends
    /\ [][RetryAnswerReturned]_vars

C24_Witness ==
    \E c \in Calls :
        /\ calls[c].at = "resolved" /\ calls[c].status = Unauthorized
        /\ sends[c] = 2 /\ RefreshesBy(c) = 1

------------------------------------------------------------------------------
(* The projects cache.                                                       *)

\* C25: whatever the order of saves, list loads, deletes and their answers,
\* no two entries of the projects cache carry the same project id.
C25_NoDuplicateIds ==
    \A i, j \in 1..Len(projects) : i # j => projects[i].id # projects[j].id

------------------------------------------------------------------------------
(* The builder's camera target and the layout.                               *)

\* C26: while the camera mode is auto and a step of the project is selected,
\* the target pose is the focus pose of that step's current projected
\* position, also after the step's 2D position changed under an unchanged
\* selection.
C26_TargetTracksLayout ==
    (viewer = "builder" /\ ctlMounted /\ cameraMode = "auto"
        /\ selectedStepId \in StepIdsOf(project)) =>
        /\ targetPos = ResolveTarget(project, nodePositions, selectedStepId).pos
        /\ targetLookAt = ResolveTarget(project, nodePositions, selectedStepId).lookAt

------------------------------------------------------------------------------
(* The selection of the store.                                               *)

\* C29: after any sequence of store operations, setSelectedStepId being
\* called with null or the id of an existing step only, selectedStepId is
\* null or the id of a step of the current project.
C29_SelectionInProject ==
    selectedStepId = Null \/ selectedStepId \in StepIdsOf(project)

------------------------------------------------------------------------------
(* Termination of the hierarchical layout.                                   *)

EnqueuedOnce ==
    \A i, j \in 1..Len(bfs.queue) : i # j => bfs.queue[i].id # bfs.queue[j].id

EveryStepPlaced == bfs.pc = "done" => Range(layoutSteps) \subseteq DOMAIN layoutResult.out

\* Two steps connected in both directions.
HasCycle ==
    \E i, j \in 1..Len(layoutConnections) :
        /\ layoutConnections[i].source # layoutConnections[i].target
        /\ {layoutConnections[i].source, layoutConnections[i].target} \subseteq Range(layoutSteps)
        /\ layoutConnections[i].source = layoutConnections[j].target
        /\ layoutConnections[i].target = layoutConnections[j].source

HasGhostEndpoint ==
    \E i \in 1..Len(layoutConnections) :
        GhostId \in {layoutConnections[i].source, layoutConnections[i].target}

\* C30: calculateHierarchicalLayout returns for every step list and connection
\* list, cyclic graphs and connections between ids that are not steps
\* included; no id is put into the queue twice, and on return every step has
\* a position.
C30_LayoutTerminates ==
    /\ <>(bfs.pc = "done")
    /\ []EnqueuedOnce
    /\ []EveryStepPlaced

C30_Witness ==
    /\ bfs.pc = "done" /\ Len(layoutSteps) >= 2
    /\ HasCycle /\ HasGhostEndpoint
    /\ \E i \in 1..Len(bfs.queue) : bfs.queue[i].id = GhostId
    /\ Len(bfs.queue) >= 3
    /\ Range(layoutSteps) \subseteq DOMAIN layoutResult.out

====
